---- MODULE Spec2Model ----
(***************************************************************************)
(* Offline sync engine of nesttask-routine: the task controller            *)
(* (hooks/useTasks.ts), the routine controller (hooks/useRoutines.ts), the *)
(* IndexedDB wrapper (utils/offlineStorage.ts), the routine service and    *)
(* the application's syncAllOfflineChanges.                                *)
(*                                                                         *)
(* Identifiers are pairs <<prefix, n>>: the prefix is the literal text the *)
(* code puts in front ("temp_" for tasks, "temp-" for routines,            *)
(* "temp-slot-" for slots, "srv" for an identifier the server assigned)    *)
(* and n stands for the unique remainder (timestamp and random suffix, or  *)
(* the server's key).                                                      *)
(***************************************************************************)
EXTENDS Naturals, Sequences, FiniteSets

VARIABLES
    isOffline,      \* useOfflineStatus(): TRUE while the browser is offline
    tasks,          \* useTasks: the in-memory task list (useState)
    taskStore,      \* IndexedDB object store STORES.TASKS
    taskServer,     \* the tasks table behind task.service
    routines,       \* useRoutines: the in-memory routine list (useState)
    routineStore,   \* IndexedDB object store STORES.ROUTINES
    routineServer,  \* the routines / routine_slots tables behind routine.service
    nextId,         \* source of unique identifier remainders
    steps,          \* number of operations performed so far
    lastOp,         \* the operation that completed last, with what it returned
    removedTemp,    \* provisional ids deleted offline while still pendingCreate
    offlineTasks,   \* tasks created offline and not deleted since, as last edited
    taskError,      \* useTasks: the error state (useState)
    routineError,   \* useRoutines: the error state (useState)
    syncRequested,  \* the Sync Orchestrator has a reconcile pass to run
    storage,        \* the condition of IndexedDB (see StorageStates)
    retryCount,     \* useTasks: the retryCount state (useState)
    timers,         \* the pending setTimeout callbacks of loadTasks
    scheduled,      \* number of retry timers scheduled so far
    inFlight,       \* the calls that have started and not yet completed
    userId          \* useTasks(userId): user?.id of the signed-in user

vars == <<isOffline, tasks, taskStore, taskServer, routines, routineStore,
          routineServer, nextId, steps, lastOp, removedTemp, offlineTasks,
          taskError, routineError, syncRequested, storage, retryCount,
          timers, scheduled, inFlight, userId>>

\* Bound of the exploration: the number of operations in one behaviour.
MaxSteps == 3

\* Bound of the identifier remainders: the Sync Orchestrator's reconcile is
\* explored while nextId is below it.
MaxId == 8

\* Bound of the batches handed to the IndexedDB wrapper on its own.
MaxBatch == 2

\* Bound of the retry attempts for which the delay is tabulated.
MaxAttempt == 5

\* loadTasks schedules a retry while retryCount < 3.
MaxRetries == 3

\* The accounts that sign in on this browser; NoUser is user?.id undefined.
Users == {"u1", "u2"}

NoUser == "none"

\* Values of the one user-editable field kept per record.
Names == {"a", "b"}

\* A slot input that lacks the day of week, the start time or the end time.
InvalidSlot == "invalid"

SlotInputs == Names \cup {InvalidSlot}

TempPrefixes == {"temp_", "temp-", "temp-slot-"}

\* An identifier is provisional when its text starts with "temp".
IsProvisional(id) == id[1] \in TempPrefixes

Ids(recs) == {r.id : r \in recs}

\* A record carries flag f when the property is present and truthy.
HasFlag(rec, f) == f \in DOMAIN rec /\ rec[f] = TRUE

NoRet == [id |-> <<"none", 0>>]

\* The error state when no error is shown (null), and when a message is.
NoError == "null"

Failed == "error"

(***************************************************************************)
(* Local Store (utils/offlineStorage.ts).  A store is the set of records   *)
(* it holds, keyed by id.                                                  *)
(***************************************************************************)

\* store.put(item) for every item: an upsert by key, nothing is removed.
saveToIndexedDB(store, items) ==
    {r \in store : r.id \notin Ids(items)} \cup items

getAllFromIndexedDB(store) == store

deleteFromIndexedDB(store, id) == {r \in store : r.id # id}

\* The storage failures one call of the wrapper can meet.  kind says where:
\* "open" (indexedDB.open fires onerror, so initDB rejects), "transaction"
\* (db.transaction throws), "request" (the request of item `at` fires an
\* error event) and "throw" (store.put throws for item `at`).
FaultKinds == {"ok", "open", "transaction", "request", "throw"}

Fault(kind, at) == [kind |-> kind, at |-> at]

NoFault == Fault("ok", 1)

Range(seq) == {seq[i] : i \in 1..Len(seq)}

\* saveToIndexedDB(storeName, data) with data an array, written item by item
\* in one readwrite transaction.  initDB rejecting is rethrown by the catch;
\* db.transaction throwing rejects the returned promise; a request's error
\* event reaches transaction.onerror and, being unhandled, aborts the
\* transaction; an exception thrown by store.put leaves forEach and the
\* executor, so the promise rejects, while the puts already queued stay in
\* the transaction, which nobody aborts and which therefore commits.
saveToIndexedDBCall(store, data, fault) ==
    IF fault.kind \in {"open", "transaction"}
      THEN [outcome |-> "rejected", store |-> store]
    ELSE IF fault.kind = "request" /\ fault.at <= Len(data)
      THEN [outcome |-> "rejected", store |-> store]
    ELSE IF fault.kind = "throw" /\ fault.at <= Len(data)
      THEN [outcome |-> "rejected",
            store |-> saveToIndexedDB(store,
                                      Range(SubSeq(data, 1, fault.at - 1)))]
    ELSE [outcome |-> "ok", store |-> saveToIndexedDB(store, Range(data))]

\* getAllFromIndexedDB(storeName): only `await initDB()` is inside the try;
\* the promise built around the transaction is returned without await, so
\* its rejection is not caught and the call rejects.
getAllFromIndexedDBCall(store, fault) ==
    IF fault.kind = "open"
      THEN [outcome |-> "ok", value |-> {}]
    ELSE IF fault.kind \in {"transaction", "request"}
      THEN [outcome |-> "rejected", value |-> {}]
    ELSE [outcome |-> "ok", value |-> getAllFromIndexedDB(store)]

\* deleteFromIndexedDB(storeName, id): rejects on every failure.
deleteFromIndexedDBCall(store, id, fault) ==
    IF fault.kind \in {"open", "transaction", "request"}
      THEN [outcome |-> "rejected", store |-> store]
    ELSE [outcome |-> "ok", store |-> deleteFromIndexedDB(store, id)]

\* getAll returns the records in key order; n orders the keys.
RECURSIVE InKeyOrder(_)
InKeyOrder(recs) ==
    IF recs = {} THEN <<>>
    ELSE LET m == CHOOSE x \in recs : \A y \in recs : x.id[2] <= y.id[2]
         IN  <<m>> \o InKeyOrder(recs \ {m})

(***************************************************************************)
(* Records.                                                                *)
(***************************************************************************)

\* userId is the owner of a row of the tasks table, and in the Local Store
\* the userId the hook adds to the record for offline filtering.
Task(id, title, owner) == [id |-> id, title |-> title, userId |-> owner]

Slot(id, val, off, upd, del) ==
    [id |-> id, val |-> val,
     _isOffline |-> off, _isOfflineUpdated |-> upd, _isOfflineDeleted |-> del]

\* isActive is false and the activation markers are absent until
\* activateRoutine / deactivateRoutine set them (FALSE stands for undefined).
Routine(id, name, slots, off, upd, del) ==
    [id |-> id, name |-> name, slots |-> slots, isActive |-> FALSE,
     _isOffline |-> off, _isOfflineUpdated |-> upd, _isOfflineDeleted |-> del,
     _needsActivationSync |-> FALSE, _needsDeactivationSync |-> FALSE]

(***************************************************************************)
(* Remote Service for routines (services/routine.service.ts): the effect   *)
(* of an accepted call on the server tables.                               *)
(***************************************************************************)

createRoutineService(server, name, id) ==
    server \cup {Routine(id, name, {}, FALSE, FALSE, FALSE)}

updateRoutineService(server, id, name) ==
    {IF r.id = id THEN [r EXCEPT !.name = name] ELSE r : r \in server}

deleteRoutineService(server, id) == {r \in server : r.id # id}

addRoutineSlotService(server, routineId, val, id) ==
    {IF r.id = routineId
       THEN [r EXCEPT !.slots = @ \cup {Slot(id, val, FALSE, FALSE, FALSE)}]
       ELSE r : r \in server}

updateRoutineSlotService(server, routineId, slotId, val) ==
    {IF r.id = routineId
       THEN [r EXCEPT !.slots =
               {IF s.id = slotId THEN [s EXCEPT !.val = val] ELSE s : s \in @}]
       ELSE r : r \in server}

deleteRoutineSlotService(server, routineId, slotId) ==
    {IF r.id = routineId
       THEN [r EXCEPT !.slots = {s \in @ : s.id # slotId}]
       ELSE r : r \in server}

\* is_active of one row (updateRoutine(id, { isActive })).
setIsActive(server, id, v) ==
    {IF r.id = id THEN [r EXCEPT !.isActive = v] ELSE r : r \in server}

\* Deactivates every other active routine, then activates routineId.
activateRoutineService(server, routineId) ==
    {IF r.id = routineId THEN [r EXCEPT !.isActive = TRUE]
     ELSE [r EXCEPT !.isActive = FALSE] : r \in server}

deactivateRoutineService(server, routineId) ==
    setIsActive(server, routineId, FALSE)

\* fetchRoutines maps the rows to plain records: no offline flag is present.
fetchRoutines(server) == server

(***************************************************************************)
(* Remote Service for tasks (services/task.service).                       *)
(***************************************************************************)

createTaskService(server, owner, title, id) ==
    server \cup {Task(id, title, owner)}

updateTaskService(server, id, title) ==
    {IF t.id = id THEN [t EXCEPT !.title = title] ELSE t : t \in server}

deleteTaskService(server, id) == {t \in server : t.id # id}

\* offlineTasks.filter(task => task.userId === userId)
OwnedBy(recs, owner) == {t \in recs : t.userId = owner}

\* The rows of one user.
fetchTasks(server, owner) == OwnedBy(server, owner)

\* data.map(task => ({ ...task, userId }))
WithUserId(recs, owner) == {[t EXCEPT !.userId = owner] : t \in recs}

(***************************************************************************)
(* A controller's state is c = [store, view, server, nextId, error,        *)
(* storage]; a handler maps it to the state after the call, with the       *)
(* call's outcome ("ok" when the promise resolves, "rejected" when it      *)
(* rejects), the value it resolves to and the Remote Service calls it      *)
(* issued, in order: a call is <<function, id of the local record it is    *)
(* issued for, accepted>>; writeFailed says that a Local Store write of    *)
(* the call rejected.  c.storage is                                        *)
(* the condition of IndexedDB while the handler runs: "ok"; "open" (the    *)
(* database cannot be opened); "transaction" (no transaction can be        *)
(* started); "quota" (reads work, every put fails).                        *)
(***************************************************************************)

StorageStates == {"ok", "open", "transaction", "quota"}

Res(store, view, server, nid, outcome, ret, calls) ==
    [store |-> store, view |-> view, server |-> server, nextId |-> nid,
     outcome |-> outcome, ret |-> ret, calls |-> calls, writeFailed |-> FALSE]

\* The call rejected before it changed anything.
Rejected(c, calls) ==
    Res(c.store, c.view, c.server, c.nextId, "rejected", NoRet, calls)

Replace(view, id, rec) == {IF r.id = id THEN rec ELSE r : r \in view}

\* The error state a create / update / delete / slot / activation handler
\* leaves: setError(null) on entry, setError(err.message) in its catch.
MutationError(r) == IF r.outcome = "rejected" THEN Failed ELSE NoError

\* The wrapper's calls as the handlers meet them under c.storage.
WriteFault(c) ==
    IF c.storage = "quota" THEN Fault("request", 1)
    ELSE IF c.storage = "ok" THEN NoFault ELSE Fault(c.storage, 1)

ReadFault(c) ==
    IF c.storage \in {"open", "transaction"} THEN Fault(c.storage, 1)
    ELSE NoFault

\* A write w is [outcome, store, failed]: failed when the wrapper rejected.
Write(c, items) ==
    LET r == saveToIndexedDBCall(c.store, InKeyOrder(items), WriteFault(c))
    IN  [outcome |-> r.outcome, store |-> r.store,
         failed |-> r.outcome = "rejected"]

Read(c) == getAllFromIndexedDBCall(c.store, ReadFault(c))

Delete(c, id) ==
    LET r == deleteFromIndexedDBCall(c.store, id, ReadFault(c))
    IN  [outcome |-> r.outcome, store |-> r.store,
         failed |-> r.outcome = "rejected"]

\* No write was reached: the read before it rejected.
NoWrite(c) == [outcome |-> "rejected", store |-> c.store, failed |-> FALSE]

\* No write was needed.
Untouched(c) == [outcome |-> "ok", store |-> c.store, failed |-> FALSE]

\* An offline branch: the awaited write w comes first, the view follows.
WriteThenApply(c, w, view, nid, ret) ==
    IF w.outcome = "rejected"
      THEN [Rejected(c, <<>>) EXCEPT !.writeFailed = w.failed]
    ELSE Res(w.store, view, c.server, nid, "ok", ret, <<>>)

\* An online branch whose write w is awaited in the handler's own try: the
\* service call and setState have happened, a failed write rejects the call.
ApplyThenWrite(c, w, view, server, nid, ret, calls) ==
    [Res(w.store, view, server, nid, w.outcome,
         IF w.outcome = "ok" THEN ret ELSE NoRet, calls)
       EXCEPT !.writeFailed = w.failed]

\* An online branch whose write w sits in an inner try / catch that only
\* logs: a failed write is not reported.
ApplyThenTryWrite(c, w, view, server, nid, ret, calls) ==
    [Res(w.store, view, server, nid, "ok", ret, calls)
       EXCEPT !.writeFailed = w.failed]

(***************************************************************************)
(* Task controller (hooks/useTasks.ts).                                    *)
(***************************************************************************)

\* Math.pow(b, e) for natural e.
RECURSIVE pow(_, _)
pow(b, e) == IF e = 0 THEN 1 ELSE b * pow(b, e - 1)

\* Math.min(a, b).
min(a, b) == IF a < b THEN a ELSE b

\* A variant whose delay grows by 1000 ms per attempt.
retryDelayLinear(attempt) == min(1000 * (attempt + 1), 10000)

\* const timeout = Math.min(1000 * Math.pow(2, retryCount), 10000)
retryDelay(attempt) == min(1000 * pow(2, attempt), 10000)

\* A variant that asks the server whatever the connectivity.
loadTasksAlwaysRemote(c, offline, fetchOk) ==
    IF fetchOk
      THEN LET data == fetchTasks(c.server, c.userId)
               w    == Write(c, WithUserId(data, c.userId))
           IN  Res(w.store, data, c.server, c.nextId,
                   "ok", NoRet, << <<"fetchTasks", NoRet.id, TRUE>> >>)
    ELSE LET rd == Read(c)
             userTasks == OwnedBy(rd.value, c.userId)
         IN  Res(c.store,
                 IF rd.outcome = "ok" /\ userTasks # {} THEN userTasks
                 ELSE c.view,
                 c.server, c.nextId, "ok", NoRet,
                 << <<"fetchTasks", NoRet.id, FALSE>> >>)

\* fetchOk: testConnection() and fetchTasks() both succeed.
loadTasks(c, offline, fetchOk) ==
    IF offline
      THEN LET rd == Read(c)
           IN  Res(c.store,
                   IF rd.outcome = "ok" THEN OwnedBy(rd.value, c.userId)
                   ELSE c.view,
                   c.server, c.nextId, "ok", NoRet, <<>>)
    ELSE IF fetchOk
      THEN LET data == fetchTasks(c.server, c.userId)
               w    == Write(c, WithUserId(data, c.userId))
               rd   == Read(c)
               userTasks == OwnedBy(rd.value, c.userId)
           IN  Res(w.store,
                   IF w.outcome = "rejected" /\ rd.outcome = "ok"
                                             /\ userTasks # {}
                     THEN userTasks ELSE data,
                   c.server, c.nextId,
                   "ok", NoRet, << <<"fetchTasks", NoRet.id, TRUE>> >>)
    ELSE LET rd == Read(c)
             userTasks == OwnedBy(rd.value, c.userId)
         IN  Res(c.store,
                 IF rd.outcome = "ok" /\ userTasks # {} THEN userTasks
                 ELSE c.view,
                 c.server, c.nextId, "ok", NoRet,
                 << <<"fetchTasks", NoRet.id, FALSE>> >>)

\* loadTasks entered its catch block.
loadTasksFailed(c, offline, fetchOk) ==
    IF offline THEN Read(c).outcome = "rejected"
    ELSE IF fetchOk
      THEN Write(c, WithUserId(fetchTasks(c.server, c.userId),
                               c.userId)).outcome = "rejected"
    ELSE TRUE

\* The error state loadTasks leaves: cleared on entry, set in the catch, and
\* cleared again only when the fallback found cached tasks.
loadTasksError(c, offline, fetchOk) ==
    IF ~loadTasksFailed(c, offline, fetchOk) THEN NoError
    ELSE IF ~offline /\ Read(c).outcome = "ok"
                     /\ OwnedBy(Read(c).value, c.userId) # {}
      THEN NoError
    ELSE Failed

handleCreateTask(c, offline, title, ok) ==
    IF offline
      THEN LET offlineTask == Task(<<"temp_", c.nextId>>, title, c.userId)
           IN  WriteThenApply(c, Write(c, {offlineTask}),
                              c.view \cup {offlineTask}, c.nextId + 1,
                              offlineTask)
    ELSE LET result == Task(<<"srv", c.nextId>>, title, c.userId)
             call   == << <<"createTask", NoRet.id, ok>> >>
         IN  IF ~ok THEN Rejected(c, call)
             ELSE ApplyThenWrite(c, Write(c, {result}),
                                 c.view \cup {result},
                                 createTaskService(c.server, c.userId, title,
                                                   result.id),
                                 c.nextId + 1, result, call)

\* getByIdFromIndexedDB resolves to null when the database cannot be opened
\* and rejects when the transaction fails: either way the update rejects.
handleUpdateTask(c, offline, taskId, title, ok) ==
    IF offline
      THEN LET rd == Read(c)
           IN  IF rd.outcome = "rejected" \/ taskId \notin Ids(rd.value)
                 THEN Rejected(c, <<>>)
               ELSE LET existingTask == CHOOSE t \in rd.value : t.id = taskId
                        updatedTask  == [existingTask EXCEPT !.title = title]
                    IN  WriteThenApply(c, Write(c, {updatedTask}),
                                       Replace(c.view, taskId, updatedTask),
                                       c.nextId, updatedTask)
    ELSE LET accepted == ok /\ taskId \in Ids(c.server)
             call == << <<"updateTask", taskId, accepted>> >>
         IN  IF ~accepted THEN Rejected(c, call)
             ELSE LET server == updateTaskService(c.server, taskId, title)
                      result == CHOOSE t \in server : t.id = taskId
                  IN  ApplyThenWrite(c, Write(c, WithUserId({result}, c.userId)),
                                     Replace(c.view, taskId, result), server,
                                     c.nextId, result, call)

handleDeleteTask(c, offline, taskId, ok) ==
    IF offline
      THEN WriteThenApply(c, Delete(c, taskId),
                          {t \in c.view : t.id # taskId}, c.nextId, NoRet)
    ELSE LET call == << <<"deleteTask", taskId, ok>> >>
         IN  IF ~ok THEN Rejected(c, call)
             ELSE ApplyThenWrite(c, Delete(c, taskId),
                                 {t \in c.view : t.id # taskId},
                                 deleteTaskService(c.server, taskId), c.nextId,
                                 NoRet, call)

\* syncOfflineChanges of the task controller only reloads.
syncOfflineTasks(c, offline, fetchOk) == loadTasks(c, offline, fetchOk)

(***************************************************************************)
(* Routine controller (hooks/useRoutines.ts).                              *)
(***************************************************************************)

loadRoutines(c, offline, fetchOk) ==
    IF offline
      THEN LET rd == Read(c)
           IN  Res(c.store, IF rd.outcome = "ok" THEN rd.value ELSE c.view,
                   c.server, c.nextId, "ok", NoRet, <<>>)
    ELSE IF fetchOk
      THEN LET data == fetchRoutines(c.server)
               w    == IF data # {} THEN Write(c, data) ELSE Untouched(c)
               rd   == Read(c)
           IN  Res(w.store,
                   IF w.outcome = "rejected" /\ rd.outcome = "ok"
                                             /\ rd.value # {}
                     THEN rd.value ELSE data,
                   c.server, c.nextId, "ok", NoRet,
                   << <<"fetchRoutines", NoRet.id, TRUE>> >>)
    ELSE LET rd == Read(c)
         IN  Res(c.store,
                 IF rd.outcome = "ok" /\ rd.value # {} THEN rd.value
                 ELSE c.view,
                 c.server, c.nextId, "ok", NoRet,
                 << <<"fetchRoutines", NoRet.id, FALSE>> >>)

\* loadRoutines entered its catch block.
loadRoutinesFailed(c, offline, fetchOk) ==
    IF offline THEN Read(c).outcome = "rejected"
    ELSE IF fetchOk
      THEN LET data == fetchRoutines(c.server)
           IN  data # {} /\ Write(c, data).outcome = "rejected"
    ELSE TRUE

\* The error state loadRoutines leaves: never cleared, set in the catch.
loadRoutinesError(c, offline, fetchOk) ==
    IF loadRoutinesFailed(c, offline, fetchOk) THEN Failed ELSE c.error

\* A variant that marks the routine as created offline whatever the
\* connectivity, so a server-confirmed routine is stored tagged.
createRoutineTagged(c, offline, name, ok) ==
    IF offline
      THEN LET offlineRoutine ==
                   Routine(<<"temp-", c.nextId>>, name, {}, TRUE, FALSE, FALSE)
           IN  WriteThenApply(c, Write(c, {offlineRoutine}),
                              c.view \cup {offlineRoutine}, c.nextId + 1,
                              offlineRoutine)
    ELSE LET newRoutine ==
                 Routine(<<"srv", c.nextId>>, name, {}, TRUE, FALSE, FALSE)
             call == << <<"createRoutine", NoRet.id, ok>> >>
         IN  IF ~ok THEN Rejected(c, call)
             ELSE ApplyThenWrite(c, Write(c, {newRoutine}),
                                 c.view \cup {newRoutine},
                                 createRoutineService(c.server, name,
                                                      newRoutine.id),
                                 c.nextId + 1, newRoutine, call)

createRoutine(c, offline, name, ok) ==
    IF offline
      THEN LET offlineRoutine ==
                   Routine(<<"temp-", c.nextId>>, name, {}, TRUE, FALSE, FALSE)
           IN  WriteThenApply(c, Write(c, {offlineRoutine}),
                              c.view \cup {offlineRoutine}, c.nextId + 1,
                              offlineRoutine)
    ELSE LET newRoutine ==
                 Routine(<<"srv", c.nextId>>, name, {}, FALSE, FALSE, FALSE)
             call == << <<"createRoutine", NoRet.id, ok>> >>
         IN  IF ~ok THEN Rejected(c, call)
             ELSE ApplyThenWrite(c, Write(c, {newRoutine}),
                                 c.view \cup {newRoutine},
                                 createRoutineService(c.server, name,
                                                      newRoutine.id),
                                 c.nextId + 1, newRoutine, call)

\* A variant that merges the updates into every routine of the list.
MergeInEveryRoutine(view, id, name) == {[r EXCEPT !.name = name] : r \in view}

\* prev.map(routine => routine.id === id ? { ...routine, ...updates } : routine)
MergeInView(view, id, name) ==
    {IF r.id = id THEN [r EXCEPT !.name = name] ELSE r : r \in view}

\* The read of the stored routines followed by the put of the one with id
\* `id` when it is found: renamed to `name` (Keep leaves the name) and with
\* flag set ("none" sets no flag).
Keep == "keep"

updateRoutineWrite(c, id, name, flag) ==
    LET rd == Read(c)
    IN  IF rd.outcome = "rejected" THEN NoWrite(c)
        ELSE IF id \in Ids(rd.value)
          THEN LET routineToUpdate == CHOOSE r \in rd.value : r.id = id
               IN  Write(c, {[routineToUpdate EXCEPT
                                !.name = IF name = Keep THEN @ ELSE name,
                                !._isOfflineUpdated =
                                    @ \/ flag = "_isOfflineUpdated",
                                !._isOfflineDeleted =
                                    @ \/ flag = "_isOfflineDeleted"]})
        ELSE Untouched(c)

\* A variant that merges the updates into the view before the service call
\* settles, so a rejected call leaves the optimistic change behind.
updateRoutineOptimistic(c, offline, id, name, ok) ==
    IF offline
      THEN LET rd == Read(c)
               w  == updateRoutineWrite(c, id, name, "_isOfflineUpdated")
           IN  WriteThenApply(c, w,
                              IF rd.outcome = "ok" /\ id \in Ids(rd.value)
                                THEN MergeInView(c.view, id, name)
                              ELSE c.view,
                              c.nextId, NoRet)
    ELSE LET call == << <<"updateRoutine", id, ok>> >>
             o    == [c EXCEPT !.view = MergeInView(c.view, id, name)]
         IN  IF ~ok THEN Rejected(o, call)
             ELSE ApplyThenWrite(c, updateRoutineWrite(c, id, name, "none"),
                                 o.view,
                                 updateRoutineService(c.server, id, name),
                                 c.nextId, NoRet, call)

updateRoutine(c, offline, id, name, ok) ==
    IF offline
      THEN LET rd == Read(c)
               w  == updateRoutineWrite(c, id, name, "_isOfflineUpdated")
           IN  WriteThenApply(c, w,
                              IF rd.outcome = "ok" /\ id \in Ids(rd.value)
                                THEN MergeInView(c.view, id, name)
                              ELSE c.view,
                              c.nextId, NoRet)
    ELSE LET call == << <<"updateRoutine", id, ok>> >>
         IN  IF ~ok THEN Rejected(c, call)
             ELSE ApplyThenWrite(c, updateRoutineWrite(c, id, name, "none"),
                                 MergeInView(c.view, id, name),
                                 updateRoutineService(c.server, id, name),
                                 c.nextId, NoRet, call)

deleteRoutine(c, offline, id, ok) ==
    IF offline
      THEN WriteThenApply(c,
                          updateRoutineWrite(c, id, Keep, "_isOfflineDeleted"),
                          {r \in c.view : r.id # id}, c.nextId, NoRet)
    ELSE LET call == << <<"deleteRoutine", id, ok>> >>
         IN  IF ~ok THEN Rejected(c, call)
             ELSE LET rd == Read(c)
                      updatedRoutines == {r \in rd.value : r.id # id}
                      w == IF rd.outcome = "rejected" THEN NoWrite(c)
                           ELSE Write(c, updatedRoutines)
                  IN  ApplyThenTryWrite(c, w, {r \in c.view : r.id # id},
                                        deleteRoutineService(c.server, id),
                                        c.nextId, NoRet, call)

\* Apply f to the slots of routine routineId in a list of routines.
WithSlots(recs, routineId, f(_)) ==
    {IF r.id = routineId THEN [r EXCEPT !.slots = f(@)] ELSE r : r \in recs}

addRoutineSlot(c, offline, routineId, val, ok) ==
    IF offline
      THEN LET newSlot == Slot(<<"temp-slot-", c.nextId>>, val,
                               TRUE, FALSE, FALSE)
               Add(slots) == slots \cup {newSlot}
               rd == Read(c)
           IN  IF rd.outcome = "ok" /\ routineId \in Ids(rd.value)
                 THEN WriteThenApply(c,
                        Write(c, WithSlots(rd.value, routineId, Add)),
                        WithSlots(c.view, routineId, Add), c.nextId + 1,
                        newSlot)
               ELSE Rejected(c, <<>>)
    ELSE LET newSlot == Slot(<<"srv", c.nextId>>, val, FALSE, FALSE, FALSE)
             Add(slots) == slots \cup {newSlot}
             valid == val \in Names
             accepted == valid /\ ok /\ routineId \in Ids(c.server)
             call == << <<"addRoutineSlot", NoRet.id, accepted>> >>
             rd == Read(c)
             w  == IF rd.outcome = "rejected" THEN NoWrite(c)
                   ELSE IF routineId \in Ids(rd.value)
                     THEN Write(c, {r \in WithSlots(rd.value, routineId, Add) :
                                        r.id = routineId})
                   ELSE Untouched(c)
         IN  IF ~valid THEN Rejected(c, <<>>)
             ELSE IF ~accepted THEN Rejected(c, call)
             ELSE ApplyThenTryWrite(c, w, WithSlots(c.view, routineId, Add),
                                    addRoutineSlotService(c.server, routineId,
                                                          val, newSlot.id),
                                    c.nextId + 1, newSlot, call)

updateRoutineSlot(c, offline, routineId, slotId, val, ok) ==
    LET Merge(slots) ==
            {IF s.id = slotId THEN [s EXCEPT !.val = val] ELSE s : s \in slots}
        MergeFlag(slots) ==
            {IF s.id = slotId
               THEN [s EXCEPT !.val = val, !._isOfflineUpdated = TRUE]
               ELSE s : s \in slots}
        rd == Read(c)
        found == rd.outcome = "ok" /\ routineId \in Ids(rd.value)
    IN  IF offline
          THEN LET w == IF rd.outcome = "rejected" THEN NoWrite(c)
                        ELSE IF found
                          THEN Write(c, WithSlots(rd.value, routineId,
                                                  MergeFlag))
                        ELSE Untouched(c)
               IN  WriteThenApply(c, w,
                                  IF found
                                    THEN WithSlots(c.view, routineId, Merge)
                                  ELSE c.view,
                                  c.nextId, NoRet)
        ELSE LET call == << <<"updateRoutineSlot", slotId, ok>> >>
                 w == IF rd.outcome = "rejected" THEN NoWrite(c)
                      ELSE IF found
                        THEN Write(c, WithSlots(rd.value, routineId, Merge))
                      ELSE Untouched(c)
             IN  IF ~ok THEN Rejected(c, call)
                 ELSE ApplyThenTryWrite(c, w,
                                        WithSlots(c.view, routineId, Merge),
                                        updateRoutineSlotService(c.server,
                                          routineId, slotId, val),
                                        c.nextId, NoRet, call)

deleteRoutineSlot(c, offline, routineId, slotId, ok) ==
    LET Filter(slots) == {s \in slots : s.id # slotId}
        \* mark the slot, then drop it when it was created offline
        Mark(slots) ==
            {s \in {IF t.id = slotId
                      THEN [t EXCEPT !._isOfflineDeleted = TRUE]
                      ELSE t : t \in slots} :
                 ~(s.id = slotId /\ s._isOffline)}
        rd == Read(c)
        found == rd.outcome = "ok" /\ routineId \in Ids(rd.value)
    IN  IF offline
          THEN LET w == IF rd.outcome = "rejected" THEN NoWrite(c)
                        ELSE IF found
                          THEN Write(c, WithSlots(rd.value, routineId, Mark))
                        ELSE Untouched(c)
               IN  WriteThenApply(c, w, WithSlots(c.view, routineId, Filter),
                                  c.nextId, NoRet)
        ELSE LET call == << <<"deleteRoutineSlot", slotId, ok>> >>
                 w == IF rd.outcome = "rejected" THEN NoWrite(c)
                      ELSE IF found
                        THEN Write(c, WithSlots(rd.value, routineId, Filter))
                      ELSE Untouched(c)
             IN  IF ~ok THEN Rejected(c, call)
                 ELSE ApplyThenTryWrite(c, w,
                                        WithSlots(c.view, routineId, Filter),
                                        deleteRoutineSlotService(c.server,
                                          routineId, slotId),
                                        c.nextId, NoRet, call)

\* Offline, setRoutines comes first and the store follows, so a failed
\* read or write rejects with the view already changed.
activateRoutine(c, offline, routineId, ok) ==
    LET Mark(recs) ==
            {[r EXCEPT !.isActive = (r.id = routineId),
                       !._needsActivationSync = (r.id = routineId)] :
                 r \in recs}
        Set(recs) == {[r EXCEPT !.isActive = (r.id = routineId)] : r \in recs}
        rd == Read(c)
    IN  IF offline
          THEN LET w == IF rd.outcome = "rejected" THEN NoWrite(c)
                        ELSE Write(c, Mark(rd.value))
               IN  ApplyThenWrite(c, w, Mark(c.view), c.server, c.nextId,
                                  NoRet, <<>>)
        ELSE LET call == << <<"activateRoutine", routineId, ok>> >>
                 w == IF rd.outcome = "rejected" THEN NoWrite(c)
                      ELSE Write(c, Set(rd.value))
             IN  IF ~ok THEN Rejected(c, call)
                 ELSE ApplyThenWrite(c, w, Set(c.view),
                                     activateRoutineService(c.server,
                                                            routineId),
                                     c.nextId, NoRet, call)

deactivateRoutine(c, offline, routineId, ok) ==
    LET Mark(recs) ==
            {[r EXCEPT !.isActive = IF r.id = routineId THEN FALSE ELSE @,
                       !._needsDeactivationSync = (r.id = routineId)] :
                 r \in recs}
        Set(recs) ==
            {[r EXCEPT !.isActive = IF r.id = routineId THEN FALSE ELSE @] :
                 r \in recs}
        rd == Read(c)
    IN  IF offline
          THEN LET w == IF rd.outcome = "rejected" THEN NoWrite(c)
                        ELSE Write(c, Mark(rd.value))
               IN  ApplyThenWrite(c, w, Mark(c.view), c.server, c.nextId,
                                  NoRet, <<>>)
        ELSE LET call == << <<"deactivateRoutine", routineId, ok>> >>
                 w == IF rd.outcome = "rejected" THEN NoWrite(c)
                      ELSE Write(c, Set(rd.value))
             IN  IF ~ok THEN Rejected(c, call)
                 ELSE ApplyThenWrite(c, w, Set(c.view),
                                     deactivateRoutineService(c.server,
                                                              routineId),
                                     c.nextId, NoRet, call)

(***************************************************************************)
(* syncOfflineChanges of the routine controller.  failing is the set of    *)
(* record ids whose Remote Service call rejects in this pass.              *)
(***************************************************************************)

\* The inner loop over routine.slots; a = [slots, changed, calls, server, nextId].
RECURSIVE SyncSlots(_, _, _, _, _)
SyncSlots(a, routineId, slots, i, failing) ==
    IF i > Len(slots) THEN a
    ELSE
      LET slot == slots[i]
          ok   == slot.id \notin failing
          next ==
            IF slot._isOfflineDeleted
              THEN [a EXCEPT
                      !.calls = Append(@, <<"deleteRoutineSlot", slot.id, ok>>),
                      !.server = IF ok
                                   THEN deleteRoutineSlotService(@, routineId,
                                                                 slot.id)
                                   ELSE @,
                      !.slots = IF ok THEN {s \in @ : s.id # slot.id} ELSE @,
                      !.changed = @ \/ (ok /\ slot.id \in Ids(a.slots))]
            ELSE IF slot._isOffline /\ slot.val \notin Names
              \* addRoutineSlot of the service throws before any request
              THEN a
            ELSE IF slot._isOffline
              THEN LET accepted == ok /\ routineId \in Ids(a.server)
                       newSlot  == Slot(<<"srv", a.nextId>>, slot.val,
                                        FALSE, FALSE, FALSE)
                   IN  [a EXCEPT
                          !.calls = Append(@, <<"addRoutineSlot", slot.id, accepted>>),
                          !.server = IF accepted
                                       THEN addRoutineSlotService(@, routineId,
                                              slot.val, newSlot.id)
                                       ELSE @,
                          !.nextId = IF accepted THEN @ + 1 ELSE @,
                          !.slots = IF accepted
                                      THEN Replace(@, slot.id, newSlot)
                                      ELSE @,
                          !.changed = @ \/ (accepted /\ slot.id \in Ids(a.slots))]
            ELSE IF slot._isOfflineUpdated
              THEN [a EXCEPT
                      !.calls = Append(@, <<"updateRoutineSlot", slot.id, ok>>),
                      !.server = IF ok
                                   THEN updateRoutineSlotService(@, routineId,
                                          slot.id, slot.val)
                                   ELSE @,
                      !.slots = IF ok
                                  THEN Replace(@, slot.id,
                                         [slot EXCEPT !._isOfflineUpdated = FALSE])
                                  ELSE @,
                      !.changed = @ \/ (ok /\ slot.id \in Ids(a.slots))]
            ELSE a
      IN  SyncSlots(next, routineId, slots, i + 1, failing)

\* The outer loop over the routines read from the store;
\* a = [synced, hasChanges, calls, server, nextId].
RECURSIVE SyncRoutines(_, _, _, _)
SyncRoutines(a, offlineRoutines, i, failing) ==
    IF i > Len(offlineRoutines) THEN a
    ELSE
      LET routine == offlineRoutines[i]
          ok      == routine.id \notin failing
          next ==
            IF routine._isOfflineDeleted
              THEN [a EXCEPT
                      !.calls = Append(@, <<"deleteRoutine", routine.id, ok>>),
                      !.server = IF ok THEN deleteRoutineService(@, routine.id)
                                 ELSE @,
                      !.synced = IF ok THEN {r \in @ : r.id # routine.id}
                                 ELSE @,
                      !.hasChanges = @ \/ ok]
            ELSE IF routine._isOffline
              THEN LET newRoutine ==
                           [Routine(<<"srv", a.nextId>>, routine.name,
                                    {}, FALSE, FALSE, FALSE)
                               EXCEPT !.isActive = routine.isActive]
                   IN  [a EXCEPT
                          !.calls = Append(@, <<"createRoutine", routine.id, ok>>),
                          !.server = IF ok
                                       THEN setIsActive(
                                              createRoutineService(@,
                                                routine.name, newRoutine.id),
                                              newRoutine.id, routine.isActive)
                                       ELSE @,
                          !.nextId = IF ok THEN @ + 1 ELSE @,
                          !.synced = IF ok
                                       THEN {r \in @ : r.id # routine.id}
                                            \cup {newRoutine}
                                       ELSE @,
                          !.hasChanges = @ \/ ok]
            ELSE
              LET u == IF routine._isOfflineUpdated
                         THEN [a EXCEPT
                                 !.calls = Append(@, <<"updateRoutine",
                                                       routine.id, ok>>),
                                 !.server = IF ok
                                              THEN setIsActive(
                                                     updateRoutineService(@,
                                                       routine.id, routine.name),
                                                     routine.id, routine.isActive)
                                              ELSE @,
                                 !.synced = IF ok
                                              THEN Replace(@, routine.id,
                                                     [routine EXCEPT
                                                        !._isOfflineUpdated = FALSE])
                                              ELSE @,
                                 !.hasChanges =
                                     @ \/ (ok /\ routine.id \in Ids(a.synced))]
                       ELSE a
                  s == SyncSlots([slots |-> routine.slots, changed |-> FALSE,
                                  calls |-> u.calls, server |-> u.server,
                                  nextId |-> u.nextId],
                                 routine.id, InKeyOrder(routine.slots), 1,
                                 failing)
                  SetSlots(old) == s.slots
              IN  [u EXCEPT
                     !.calls = s.calls, !.server = s.server,
                     !.nextId = s.nextId,
                     !.synced = IF s.changed
                                  THEN WithSlots(@, routine.id, SetSlots)
                                  ELSE @,
                     !.hasChanges =
                         @ \/ (s.changed /\ routine.id \in Ids(u.synced))]
      IN  SyncRoutines(next, offlineRoutines, i + 1, failing)

\* A variant in which a pending update wins over a pending delete.
syncOfflineChangesLoopUpdateFirst(c, offlineRoutines, failing) ==
    SyncRoutines([synced |-> offlineRoutines, hasChanges |-> FALSE,
                  calls |-> <<>>, server |-> c.server, nextId |-> c.nextId],
                 InKeyOrder({[r EXCEPT !._isOfflineDeleted =
                                          @ /\ ~r._isOfflineUpdated] :
                                r \in offlineRoutines}),
                 1, failing)

\* The loops of one pass over the routines read from the store.
syncOfflineChangesLoop(c, offlineRoutines, failing) ==
    SyncRoutines([synced |-> offlineRoutines, hasChanges |-> FALSE,
                  calls |-> <<>>, server |-> c.server, nextId |-> c.nextId],
                 InKeyOrder(offlineRoutines), 1, failing)

\* A variant without the early return: the pass replays while offline.
syncOfflineChangesUnguarded(c, offline, failing) ==
    LET rd == Read(c)
        a  == syncOfflineChangesLoop(c, rd.value, failing)
        w  == Write(c, a.synced)
    IN  IF rd.outcome = "rejected"
          THEN Res(c.store, c.view, c.server, c.nextId, "ok", NoRet, <<>>)
        ELSE IF a.hasChanges /\ w.outcome = "ok"
          THEN Res(w.store, a.synced, a.server, a.nextId, "ok", NoRet, a.calls)
        ELSE Res(c.store, c.view, a.server, a.nextId, "ok", NoRet, a.calls)

\* The outer catch only logs and sets the error state: a rejected read or
\* write-back ends the pass, which still resolves.
syncOfflineChanges(c, offline, failing) ==
    IF offline
      THEN Res(c.store, c.view, c.server, c.nextId, "ok", NoRet, <<>>)
    ELSE
      LET rd == Read(c)
          a  == syncOfflineChangesLoop(c, rd.value, failing)
          w  == Write(c, a.synced)
      IN  IF rd.outcome = "rejected"
            THEN Res(c.store, c.view, c.server, c.nextId, "ok", NoRet, <<>>)
          ELSE IF a.hasChanges /\ w.outcome = "ok"
            THEN Res(w.store, a.synced, a.server, a.nextId, "ok", NoRet,
                     a.calls)
          ELSE Res(c.store, c.view, a.server, a.nextId, "ok", NoRet, a.calls)

\* The pass from the point where getAllFromIndexedDB has resolved to
\* offlineRoutines: the loops, then the write-back on the store as it is by
\* then and setRoutines(syncedRoutines).
syncOfflineChangesFrom(c, offlineRoutines, failing) ==
    LET a == syncOfflineChangesLoop(c, offlineRoutines, failing)
        w == Write(c, a.synced)
    IN  IF a.hasChanges /\ w.outcome = "ok"
          THEN Res(w.store, a.synced, a.server, a.nextId, "ok", NoRet, a.calls)
        ELSE Res(c.store, c.view, a.server, a.nextId, "ok", NoRet, a.calls)

\* The pass entered its outer catch.
syncOfflineChangesFailed(c, offline, failing) ==
    /\ ~offline
    /\ c.storage # "ok"
    /\ LET rd == Read(c)
           a  == syncOfflineChangesLoop(c, rd.value, failing)
       IN  \/ rd.outcome = "rejected"
           \/ a.hasChanges /\ Write(c, a.synced).outcome = "rejected"

syncOfflineChangesError(c, offline, failing) ==
    IF syncOfflineChangesFailed(c, offline, failing) THEN Failed ELSE c.error

\* The Local Store and Remote Service calls of the routine pass, in the
\* order it starts them: an event is <<controller, function>>.
syncOfflineChangesEvents(c, offline, failing) ==
    IF offline THEN <<>>
    ELSE LET rd == Read(c)
             a  == syncOfflineChangesLoop(c, rd.value, failing)
         IN  << <<"routines", "getAllFromIndexedDB">> >>
             \o (IF rd.outcome = "rejected" THEN <<>>
                 ELSE [i \in 1..Len(a.calls) |-> <<"routines", a.calls[i][1]>>]
                      \o (IF a.hasChanges
                            THEN << <<"routines", "saveToIndexedDB">> >>
                          ELSE <<>>))

\* The calls of loadTasks, in the order it starts them.
loadTasksEvents(c, offline, fetchOk) ==
    IF offline THEN << <<"tasks", "getAllFromIndexedDB">> >>
    ELSE << <<"tasks", "fetchTasks">> >>
         \o (IF fetchOk THEN << <<"tasks", "saveToIndexedDB">> >> ELSE <<>>)
         \o (IF loadTasksFailed(c, offline, fetchOk)
               THEN << <<"tasks", "getAllFromIndexedDB">> >>
             ELSE <<>>)

(***************************************************************************)
(* The application (App.tsx, in utils/pwa.ts): syncAllOfflineChanges runs  *)
(* the task controller's pass, then the routine controller's, inside a     *)
(* try / catch that only logs.                                             *)
(***************************************************************************)

\* A variant without any catch: a storage failure during the passes
\* rejects the returned promise.
syncAllOfflineChangesUncaught(tc, rc, offline, fetchOk, failing) ==
    LET t == syncOfflineTasks(tc, offline, fetchOk)
        r == syncOfflineChanges([rc EXCEPT !.nextId = t.nextId], offline,
                                failing)
    IN  [task |-> t, routine |-> r,
         outcome |-> IF loadTasksFailed(tc, offline, fetchOk)
                        \/ syncOfflineChangesFailed(rc, offline, failing)
                       THEN "rejected" ELSE "ok"]

\* The task pass resolves as soon as loadTasks has been started (it is not
\* awaited), the routine pass never rejects, and the catch would swallow a
\* rejection of either.
syncAllOfflineChanges(tc, rc, offline, fetchOk, failing) ==
    LET t == syncOfflineTasks(tc, offline, fetchOk)
        r == syncOfflineChanges([rc EXCEPT !.nextId = t.nextId], offline,
                                failing)
    IN  [task |-> t, routine |-> r,
         outcome |-> "ok"]

\* The order in which the calls of one syncAllOfflineChanges are started.
\* syncOfflineChanges of the task controller calls loadTasks() without
\* awaiting it: loadTasks runs to its first await (its first call is
\* started), the task pass resolves, and the routine pass starts; the rest
\* of loadTasks continues after k calls of the routine pass.
syncAllEvents(tc, rc, offline, fetchOk, failing, k) ==
    LET te == loadTasksEvents(tc, offline, fetchOk)
        re == syncOfflineChangesEvents(rc, offline, failing)
    IN  <<te[1]>> \o SubSeq(re, 1, k) \o Tail(te) \o SubSeq(re, k + 1, Len(re))

\* The positions at which the rest of loadTasks can continue.
syncAllInterleavings(rc, offline, failing) ==
    LET n == Len(syncOfflineChangesEvents(rc, offline, failing))
    IN  IF n = 0 THEN {0} ELSE 1..n

(***************************************************************************)
(* State machine.                                                          *)
(***************************************************************************)

TaskCtl == [store |-> taskStore, view |-> tasks, server |-> taskServer,
            nextId |-> nextId, error |-> taskError, storage |-> storage,
            userId |-> userId]

RoutineCtl == [store |-> routineStore, view |-> routines,
               server |-> routineServer, nextId |-> nextId,
               error |-> routineError, storage |-> storage]

\* events lists the Local Store and Remote Service calls in the order they
\* were started, where that order is recorded (syncAllOfflineChanges).
Op(op, arg, r) ==
    [op |-> op, arg |-> arg, offline |-> isOffline, outcome |-> r.outcome,
     ret |-> r.ret, calls |-> r.calls, storage |-> storage,
     writeFailed |-> r.writeFailed, events |-> <<>>]

\* Ids of the stored routines and slots that carry a pending flag.
IsTagged(rec) ==
    rec._isOffline \/ rec._isOfflineUpdated \/ rec._isOfflineDeleted

TaggedIds(store) ==
    {r.id : r \in {x \in store : IsTagged(x)}}
    \cup UNION {{s.id : s \in {x \in r.slots : IsTagged(x)}} : r \in store}

\* Every slot held by the routines of a list.
AllSlots(recs) == UNION {r.slots : r \in recs}

\* After the hooks have mounted and their first online load has resolved:
\* the server holds one routine with one slot and one task, and the stores
\* and the views mirror it.
InitRoutines ==
    {Routine(<<"srv", 1>>, "a", {Slot(<<"srv", 2>>, "a", FALSE, FALSE, FALSE)},
             FALSE, FALSE, FALSE)}

InitTasks == {Task(<<"srv", 3>>, "a", "u1")}

Init ==
    /\ isOffline = FALSE
    /\ tasks = InitTasks /\ taskStore = InitTasks /\ taskServer = InitTasks
    /\ routines = InitRoutines /\ routineStore = InitRoutines
    /\ routineServer = InitRoutines
    /\ nextId = 4
    /\ steps = 0
    /\ lastOp = [op |-> "init", arg |-> NoRet.id, offline |-> FALSE,
                 outcome |-> "ok", ret |-> NoRet, calls |-> <<>>,
                 storage |-> "ok", writeFailed |-> FALSE, events |-> <<>>]
    /\ removedTemp = {}
    /\ offlineTasks = {}
    /\ taskError = NoError
    /\ routineError = NoError
    /\ syncRequested = FALSE
    /\ storage = "ok"
    /\ retryCount = 0
    /\ timers = <<>>
    /\ scheduled = 0
    /\ inFlight = {}
    /\ userId = "u1"

TaskStep(op, arg, r, err) ==
    /\ steps < MaxSteps
    /\ steps' = steps + 1
    /\ tasks' = r.view /\ taskStore' = r.store /\ taskServer' = r.server
    /\ nextId' = r.nextId
    /\ lastOp' = Op(op, arg, r)
    /\ taskError' = err
    /\ UNCHANGED <<isOffline, routines, routineStore, routineServer,
                   routineError, syncRequested, storage, inFlight, userId>>

\* The catch of loadTasks: while online and retryCount < 3 it schedules
\* setRetryCount(prev => prev + 1) after retryDelay(retryCount).
ScheduleRetry(failed, pending, count) ==
    IF failed /\ ~isOffline /\ count < MaxRetries
      THEN /\ timers' = Append(pending, [k |-> count,
                                         delay |-> retryDelay(count)])
           /\ scheduled' = scheduled + 1
      ELSE /\ timers' = pending
           /\ scheduled' = scheduled

RoutineStep(op, arg, r, err) ==
    /\ steps < MaxSteps
    /\ steps' = steps + 1
    /\ routines' = r.view /\ routineStore' = r.store
    /\ routineServer' = r.server
    /\ nextId' = r.nextId
    /\ lastOp' = Op(op, arg, r)
    /\ routineError' = err
    /\ UNCHANGED <<isOffline, tasks, taskStore, taskServer, offlineTasks,
                   taskError, syncRequested, storage, retryCount, timers,
                   scheduled, inFlight, userId>>

\* The browser's offline / online events (useOfflineStatus).
GoOffline ==
    /\ ~isOffline /\ isOffline' = TRUE
    /\ UNCHANGED <<tasks, taskStore, taskServer, routines, routineStore,
                   routineServer, nextId, steps, lastOp, removedTemp,
                   offlineTasks, taskError, routineError, syncRequested,
                   storage, retryCount, timers, scheduled, inFlight, userId>>

GoOnline ==
    /\ isOffline /\ isOffline' = FALSE
    /\ UNCHANGED <<tasks, taskStore, taskServer, routines, routineStore,
                   routineServer, nextId, steps, lastOp, removedTemp,
                   offlineTasks, taskError, routineError, syncRequested,
                   storage, retryCount, timers, scheduled, inFlight, userId>>

LoadTasks ==
    \E fetchOk \in BOOLEAN :
        /\ TaskStep("loadTasks", NoRet.id,
                    loadTasks(TaskCtl, isOffline, fetchOk),
                    loadTasksError(TaskCtl, isOffline, fetchOk))
        /\ ScheduleRetry(loadTasksFailed(TaskCtl, isOffline, fetchOk),
                         timers, retryCount)
        /\ UNCHANGED <<removedTemp, offlineTasks, retryCount>>

CreateTask ==
    \E title \in Names, ok \in BOOLEAN :
        LET r == handleCreateTask(TaskCtl, isOffline, title, ok)
        IN  /\ TaskStep("createTask", NoRet.id, r, MutationError(r))
            /\ offlineTasks' = IF isOffline /\ r.outcome = "ok"
                                 THEN offlineTasks \cup {r.ret}
                               ELSE offlineTasks
            /\ UNCHANGED <<removedTemp, retryCount, timers, scheduled>>

UpdateTask ==
    \E id \in Ids(tasks), title \in Names, ok \in BOOLEAN :
        LET r == handleUpdateTask(TaskCtl, isOffline, id, title, ok)
        IN  /\ TaskStep("updateTask", id, r, MutationError(r))
            /\ offlineTasks' =
                   IF r.outcome = "ok" THEN Replace(offlineTasks, id, r.ret)
                   ELSE offlineTasks
            /\ UNCHANGED <<removedTemp, retryCount, timers, scheduled>>

DeleteTask ==
    \E id \in Ids(tasks), ok \in BOOLEAN :
        LET r == handleDeleteTask(TaskCtl, isOffline, id, ok)
        IN  /\ TaskStep("deleteTask", id, r, MutationError(r))
            /\ removedTemp' =
                   IF isOffline /\ IsProvisional(id) /\ id \in Ids(taskStore)
                      /\ r.outcome = "ok"
                     THEN removedTemp \cup {id} ELSE removedTemp
            /\ offlineTasks' =
                   IF r.outcome = "ok" THEN {t \in offlineTasks : t.id # id}
                   ELSE offlineTasks
            /\ UNCHANGED <<retryCount, timers, scheduled>>

SyncTasks ==
    \E fetchOk \in BOOLEAN :
        /\ TaskStep("syncTasks", NoRet.id,
                    syncOfflineTasks(TaskCtl, isOffline, fetchOk),
                    loadTasksError(TaskCtl, isOffline, fetchOk))
        /\ ScheduleRetry(loadTasksFailed(TaskCtl, isOffline, fetchOk),
                         timers, retryCount)
        /\ UNCHANGED <<removedTemp, offlineTasks, retryCount>>

LoadRoutines ==
    \E fetchOk \in BOOLEAN :
        /\ RoutineStep("loadRoutines", NoRet.id,
                       loadRoutines(RoutineCtl, isOffline, fetchOk),
                       loadRoutinesError(RoutineCtl, isOffline, fetchOk))
        /\ UNCHANGED removedTemp

CreateRoutine ==
    \E name \in Names, ok \in BOOLEAN :
        /\ RoutineStep("createRoutine", NoRet.id,
                       createRoutine(RoutineCtl, isOffline, name, ok),
                       MutationError(createRoutine(RoutineCtl, isOffline, name, ok)))
        /\ UNCHANGED removedTemp

UpdateRoutine ==
    \E id \in Ids(routines), name \in Names, ok \in BOOLEAN :
        /\ RoutineStep("updateRoutine", id,
                       updateRoutine(RoutineCtl, isOffline, id, name, ok),
                       MutationError(updateRoutine(RoutineCtl, isOffline, id, name, ok)))
        /\ UNCHANGED removedTemp

DeleteRoutine ==
    \E id \in Ids(routines), ok \in BOOLEAN :
        /\ RoutineStep("deleteRoutine", id,
                       deleteRoutine(RoutineCtl, isOffline, id, ok),
                       MutationError(deleteRoutine(RoutineCtl, isOffline, id, ok)))
        /\ removedTemp' =
               IF /\ isOffline
                  /\ \E r \in routineStore : r.id = id /\ r._isOffline
                  /\ deleteRoutine(RoutineCtl, isOffline, id, ok).outcome = "ok"
                 THEN removedTemp \cup {id} ELSE removedTemp

AddRoutineSlot ==
    \E routineId \in Ids(routines), val \in SlotInputs, ok \in BOOLEAN :
        /\ RoutineStep("addRoutineSlot", routineId,
                       addRoutineSlot(RoutineCtl, isOffline, routineId, val, ok),
                       MutationError(addRoutineSlot(RoutineCtl, isOffline, routineId, val, ok)))
        /\ UNCHANGED removedTemp

UpdateRoutineSlot ==
    \E r \in routines : \E slotId \in Ids(r.slots), val \in Names,
                           ok \in BOOLEAN :
        /\ RoutineStep("updateRoutineSlot", slotId,
                       updateRoutineSlot(RoutineCtl, isOffline, r.id, slotId,
                                         val, ok),
                       MutationError(updateRoutineSlot(RoutineCtl, isOffline,
                                                       r.id, slotId, val, ok)))
        /\ UNCHANGED removedTemp

DeleteRoutineSlot ==
    \E r \in routines : \E slotId \in Ids(r.slots), ok \in BOOLEAN :
        /\ RoutineStep("deleteRoutineSlot", slotId,
                       deleteRoutineSlot(RoutineCtl, isOffline, r.id, slotId, ok),
                       MutationError(deleteRoutineSlot(RoutineCtl, isOffline,
                                                       r.id, slotId, ok)))
        /\ removedTemp' =
               IF /\ isOffline
                  /\ \E s \in AllSlots(routineStore) :
                         s.id = slotId /\ s._isOffline
                  /\ deleteRoutineSlot(RoutineCtl, isOffline, r.id, slotId,
                                       ok).outcome = "ok"
                 THEN removedTemp \cup {slotId} ELSE removedTemp

SyncRoutineChanges ==
    \E failing \in SUBSET TaggedIds(routineStore) :
        /\ RoutineStep("syncRoutines", NoRet.id,
                       syncOfflineChanges(RoutineCtl, isOffline, failing),
                       syncOfflineChangesError(RoutineCtl, isOffline, failing))
        /\ UNCHANGED removedTemp

ActivateRoutine ==
    \E id \in Ids(routines), ok \in BOOLEAN :
        /\ RoutineStep("activateRoutine", id,
                       activateRoutine(RoutineCtl, isOffline, id, ok),
                       MutationError(activateRoutine(RoutineCtl, isOffline,
                                                     id, ok)))
        /\ UNCHANGED removedTemp

DeactivateRoutine ==
    \E id \in Ids(routines), ok \in BOOLEAN :
        /\ RoutineStep("deactivateRoutine", id,
                       deactivateRoutine(RoutineCtl, isOffline, id, ok),
                       MutationError(deactivateRoutine(RoutineCtl, isOffline,
                                                       id, ok)))
        /\ UNCHANGED removedTemp

SyncAll ==
    \E fetchOk \in BOOLEAN, failing \in SUBSET TaggedIds(routineStore) :
        \E r \in {syncAllOfflineChanges(TaskCtl, RoutineCtl, isOffline, fetchOk,
                                        failing)},
           k \in syncAllInterleavings(RoutineCtl, isOffline, failing) :
            /\ steps < MaxSteps
            /\ steps' = steps + 1
            /\ tasks' = r.task.view /\ taskStore' = r.task.store
            /\ taskServer' = r.task.server
            /\ routines' = r.routine.view /\ routineStore' = r.routine.store
            /\ routineServer' = r.routine.server
            /\ nextId' = r.routine.nextId
            /\ lastOp' = [op |-> "syncAll", arg |-> NoRet.id,
                          offline |-> isOffline, outcome |-> r.outcome,
                          ret |-> NoRet,
                          calls |-> r.task.calls \o r.routine.calls,
                          storage |-> storage, writeFailed |-> FALSE,
                          events |-> syncAllEvents(TaskCtl, RoutineCtl,
                                      isOffline, fetchOk, failing, k)]
            /\ taskError' = loadTasksError(TaskCtl, isOffline, fetchOk)
            /\ routineError' =
                   syncOfflineChangesError(RoutineCtl, isOffline, failing)
            /\ ScheduleRetry(loadTasksFailed(TaskCtl, isOffline, fetchOk),
                             timers, retryCount)
            /\ UNCHANGED <<isOffline, removedTemp, offlineTasks,
                           syncRequested, storage, retryCount,
                           inFlight, userId>>

Next ==
    \/ GoOffline \/ GoOnline
    \/ LoadTasks \/ CreateTask \/ UpdateTask \/ DeleteTask \/ SyncTasks
    \/ LoadRoutines \/ CreateRoutine \/ UpdateRoutine \/ DeleteRoutine
    \/ AddRoutineSlot \/ UpdateRoutineSlot \/ DeleteRoutineSlot
    \/ ActivateRoutine \/ DeactivateRoutine
    \/ SyncRoutineChanges \/ SyncAll

Spec == Init /\ [][Next]_vars

(***************************************************************************)
(* The Sync Orchestrator.  Once connectivity is back it requests a         *)
(* reconcile pass (Trigger); the pass (Reconcile) runs                     *)
(* syncAllOfflineChanges with the Remote Service accepting every call.     *)
(* The user's operations stay bounded by MaxSteps; the orchestrator's      *)
(* passes are not counted.                                                 *)
(***************************************************************************)

Trigger ==
    /\ ~isOffline /\ ~syncRequested
    /\ syncRequested' = TRUE
    /\ UNCHANGED <<isOffline, tasks, taskStore, taskServer, routines,
                   routineStore, routineServer, nextId, steps, lastOp,
                   removedTemp, offlineTasks, taskError, routineError,
                   storage, retryCount, timers, scheduled, inFlight, userId>>

Reconcile ==
    /\ syncRequested /\ ~isOffline
    /\ nextId < MaxId
    /\ \E r \in {syncAllOfflineChanges(TaskCtl, RoutineCtl, FALSE, TRUE, {})},
          k \in syncAllInterleavings(RoutineCtl, FALSE, {}) :
           /\ tasks' = r.task.view /\ taskStore' = r.task.store
           /\ taskServer' = r.task.server
           /\ routines' = r.routine.view /\ routineStore' = r.routine.store
           /\ routineServer' = r.routine.server
           /\ nextId' = r.routine.nextId
           /\ lastOp' = [op |-> "syncAll", arg |-> NoRet.id,
                         offline |-> FALSE, outcome |-> r.outcome,
                         ret |-> NoRet,
                         calls |-> r.task.calls \o r.routine.calls,
                         storage |-> storage, writeFailed |-> FALSE,
                         events |-> syncAllEvents(TaskCtl, RoutineCtl, FALSE,
                                                  TRUE, {}, k)]
           /\ taskError' = loadTasksError(TaskCtl, FALSE, TRUE)
           /\ routineError' = syncOfflineChangesError(RoutineCtl, FALSE, {})
    /\ syncRequested' = FALSE
    /\ UNCHANGED <<isOffline, steps, removedTemp, offlineTasks, storage,
                   retryCount, timers, scheduled, inFlight, userId>>

LiveNext == Next \/ Trigger \/ Reconcile

\* The orchestrator reacts to being online: a request is eventually made.
LiveSpec == Init /\ [][LiveNext]_vars /\ WF_vars(Trigger)

(***************************************************************************)
(* IndexedDB failing.  The browser's storage breaks at any time, in one of *)
(* the ways of StorageStates, and stays broken; the operations are those   *)
(* of Next.                                                                *)
(***************************************************************************)

StorageBreaks ==
    /\ storage = "ok"
    /\ \E s \in StorageStates \ {"ok"} : storage' = s
    /\ UNCHANGED <<isOffline, tasks, taskStore, taskServer, routines,
                   routineStore, routineServer, nextId, steps, lastOp,
                   removedTemp, offlineTasks, taskError, routineError,
                   syncRequested, retryCount, timers, scheduled,
                   inFlight, userId>>

FaultNext == Next \/ StorageBreaks

FaultSpec == Init /\ [][FaultNext]_vars

(***************************************************************************)
(* The task controller with its retry timers.  A timer that fires calls    *)
(* setRetryCount(prev => prev + 1); loadTasks depends on retryCount, so    *)
(* the effect runs again and calls loadTasks().                            *)
(***************************************************************************)

RetryTimer ==
    /\ timers # <<>>
    /\ \E i \in 1..Len(timers), fetchOk \in BOOLEAN :
           \E r \in {loadTasks(TaskCtl, isOffline, fetchOk)} :
               /\ retryCount' = retryCount + 1
               /\ tasks' = r.view /\ taskStore' = r.store
               /\ taskServer' = r.server
               /\ lastOp' = Op("retryLoad", NoRet.id, r)
               /\ taskError' = loadTasksError(TaskCtl, isOffline, fetchOk)
               /\ ScheduleRetry(loadTasksFailed(TaskCtl, isOffline, fetchOk),
                                SubSeq(timers, 1, i - 1)
                                  \o SubSeq(timers, i + 1, Len(timers)),
                                retryCount + 1)
    /\ UNCHANGED <<isOffline, routines, routineStore, routineServer, nextId,
                   steps, removedTemp, offlineTasks, routineError,
                   syncRequested, storage, inFlight, userId>>

RetryNext ==
    \/ GoOffline \/ GoOnline
    \/ LoadTasks \/ CreateTask \/ UpdateTask \/ DeleteTask \/ SyncTasks
    \/ RetryTimer

RetrySpec == Init /\ [][RetryNext]_vars

(***************************************************************************)
(* The IndexedDB wrapper on its own: any caller's calls on the tasks       *)
(* store, each meeting any storage failure.                                *)
(***************************************************************************)

StorageRecords == {Task(<<"srv", n>>, t, "u1") : n \in 3..4, t \in Names}

\* The arrays of at most MaxBatch records with distinct keys.
Batches ==
    {b \in UNION {[1..n -> StorageRecords] : n \in 0..MaxBatch} :
         \A i, j \in 1..Len(b) : b[i].id = b[j].id => i = j}

Faults == {Fault(kind, at) : kind \in FaultKinds, at \in 1..MaxBatch}

StorageCall(fn, data, fault, outcome, value) ==
    [op |-> fn, arg |-> NoRet.id, offline |-> isOffline, outcome |-> outcome,
     ret |-> NoRet, calls |-> <<>>, storage |-> storage,
     writeFailed |-> FALSE, events |-> <<>>,
     batch |-> data, fault |-> fault, value |-> value]

StorageUnchanged ==
    UNCHANGED <<isOffline, tasks, taskServer, routines, routineStore,
                routineServer, nextId, steps, removedTemp, offlineTasks,
                taskError, routineError, syncRequested, storage, retryCount,
                timers, scheduled, inFlight, userId>>

StoragePut ==
    \E data \in Batches, fault \in Faults :
        LET r == saveToIndexedDBCall(taskStore, data, fault)
        IN  /\ taskStore' = r.store
            /\ lastOp' = StorageCall("saveToIndexedDB", data, fault,
                                     r.outcome, {})
            /\ StorageUnchanged

StorageGetAll ==
    \E fault \in Faults :
        LET r == getAllFromIndexedDBCall(taskStore, fault)
        IN  /\ taskStore' = taskStore
            /\ lastOp' = StorageCall("getAllFromIndexedDB", <<>>, fault,
                                     r.outcome, r.value)
            /\ StorageUnchanged

StorageDelete ==
    \E id \in Ids(StorageRecords), fault \in Faults :
        LET r == deleteFromIndexedDBCall(taskStore, id, fault)
        IN  /\ taskStore' = r.store
            /\ lastOp' = StorageCall("deleteFromIndexedDB", <<>>, fault,
                                     r.outcome, {})
            /\ StorageUnchanged

StorageNext == StoragePut \/ StorageGetAll \/ StorageDelete

StorageSpec == Init /\ [][StorageNext]_vars

(***************************************************************************)
(* Overlapping calls.  A call that has started and not completed is a      *)
(* record of inFlight; its steps are the points where the code awaits.     *)
(***************************************************************************)

Others ==
    UNCHANGED <<isOffline, tasks, taskStore, taskServer, removedTemp,
                offlineTasks, taskError, routineError, syncRequested, storage,
                retryCount, timers, scheduled, userId>>

\* activateRoutine of the service, online: fetchRoutines() resolves to the
\* rows as they are now; todo are the routines the loop will deactivate.
ActivateStart ==
    /\ ~isOffline /\ steps < MaxSteps
    /\ \E id \in Ids(routines) :
           /\ \A q \in inFlight : q.id # id
           /\ inFlight' = inFlight \cup
                  {[kind |-> "activate", id |-> id,
                    todo |-> {r.id : r \in {x \in fetchRoutines(routineServer) :
                                               x.isActive /\ x.id # id}}]}
    /\ steps' = steps + 1
    /\ UNCHANGED <<routines, routineStore, routineServer, nextId, lastOp>>
    /\ Others

\* await updateRoutine(routine.id, { isActive: false }) for the next
\* routine of the loop.
ActivateDeactivateNext ==
    \E q \in inFlight :
        /\ q.kind = "activate" /\ q.todo # {}
        /\ LET id == CHOOSE x \in q.todo : \A y \in q.todo : x[2] <= y[2]
           IN  /\ routineServer' = setIsActive(routineServer, id, FALSE)
               /\ inFlight' = (inFlight \ {q})
                                 \cup {[q EXCEPT !.todo = @ \ {id}]}
        /\ UNCHANGED <<routines, routineStore, nextId, steps, lastOp>>
        /\ Others

\* await updateRoutine(routineId, { isActive: true }), after which the hook
\* sets the view and rewrites the stored routines.
ActivateFinish ==
    \E q \in inFlight :
        /\ q.kind = "activate" /\ q.todo = {}
        /\ \E r \in {activateRoutine(RoutineCtl, FALSE, q.id, TRUE)} :
               /\ routineServer' = setIsActive(routineServer, q.id, TRUE)
               /\ routines' = r.view /\ routineStore' = r.store
               /\ lastOp' = Op("activateRoutine", q.id, r)
               /\ routineError' = MutationError(r)
        /\ inFlight' = inFlight \ {q}
        /\ UNCHANGED <<isOffline, tasks, taskStore, taskServer, nextId, steps,
                       removedTemp, offlineTasks, taskError, syncRequested,
                       storage, retryCount, timers, scheduled, userId>>

ActivateNext ==
    \/ CreateRoutine \/ LoadRoutines
    \/ ActivateStart \/ ActivateDeactivateNext \/ ActivateFinish

ActivateSpec == Init /\ [][ActivateNext]_vars

\* A variant of the loops that starts every call at once.
StartsAtOnce(q) == TRUE

\* for (const routine of offlineRoutines) { ... await service(...) ... }: the
\* next call of the pass starts when the previous one has settled.
AwaitsPrevious(q) == q.open = {}

\* syncOfflineChanges, online: getAllFromIndexedDB has resolved; plan are
\* the calls the loops will make for the records read.
PassRead ==
    /\ ~isOffline /\ steps < MaxSteps /\ inFlight = {}
    /\ \E failing \in SUBSET TaggedIds(routineStore) :
           inFlight' =
               {[kind |-> "sync", id |-> NoRet.id,
                 snapshot |-> getAllFromIndexedDB(routineStore),
                 shown |-> routines, failing |-> failing,
                 plan |-> syncOfflineChangesLoop(RoutineCtl,
                            getAllFromIndexedDB(routineStore), failing).calls,
                 issued |-> 0, open |-> {}]}
    /\ steps' = steps + 1
    /\ UNCHANGED <<routines, routineStore, routineServer, nextId, lastOp>>
    /\ Others

\* The pass starts its next Remote Service call.
PassCall ==
    \E q \in inFlight :
        /\ q.kind = "sync" /\ q.issued < Len(q.plan)
        /\ AwaitsPrevious(q)
        /\ inFlight' = (inFlight \ {q})
                          \cup {[q EXCEPT !.issued = @ + 1,
                                          !.open = @ \cup {q.issued + 1}]}
        /\ UNCHANGED <<routines, routineStore, routineServer, nextId, steps,
                       lastOp>>
        /\ Others

\* A call of the pass settles.
PassSettle ==
    \E q \in inFlight :
        /\ q.kind = "sync"
        /\ \E i \in q.open :
               inFlight' = (inFlight \ {q}) \cup {[q EXCEPT !.open = @ \ {i}]}
        /\ UNCHANGED <<routines, routineStore, routineServer, nextId, steps,
                       lastOp>>
        /\ Others

\* The pass has read the store and has not started its first call: what
\* completes now reaches the server before the calls of the pass.
PassQuiet ==
    \A q \in inFlight : q.kind = "sync" => q.issued = 0 /\ q.open = {}

\* Every call has settled: the effect of the loops on the server, the
\* write-back and setRoutines.
PassEnd ==
    \E q \in inFlight :
        /\ q.kind = "sync" /\ q.issued = Len(q.plan) /\ q.open = {}
        /\ \E r \in {syncOfflineChangesFrom(RoutineCtl, q.snapshot,
                                              q.failing)} :
               /\ routines' = r.view /\ routineStore' = r.store
               /\ routineServer' = r.server /\ nextId' = r.nextId
               /\ lastOp' = Op("syncRoutines", NoRet.id, r)
        /\ inFlight' = inFlight \ {q}
        /\ UNCHANGED steps
        /\ Others

\* A reconcile pass is in flight, online, before its first call.
DuringPass == inFlight # {} /\ ~isOffline /\ PassQuiet

PassNext ==
    \/ inFlight = {} /\ GoOffline
    \/ inFlight = {} /\ GoOnline
    \/ inFlight = {} /\ CreateRoutine
    \/ inFlight = {} /\ UpdateRoutine
    \/ inFlight = {} /\ UpdateRoutineSlot
    \/ inFlight = {} /\ DeleteRoutine
    \/ PassRead \/ PassCall \/ PassSettle \/ PassEnd
    \/ DuringPass /\ CreateRoutine
    \/ DuringPass /\ UpdateRoutine

PassSpec == Init /\ [][PassNext]_vars

\* The signed-in user changes (useAuth): user?.id becomes undefined and the
\* effect of useTasks empties the list.
Logout ==
    /\ userId # NoUser
    /\ userId' = NoUser
    /\ tasks' = {}
    /\ UNCHANGED <<isOffline, taskStore, taskServer, routines, routineStore,
                   routineServer, nextId, steps, lastOp, removedTemp,
                   offlineTasks, taskError, routineError, syncRequested,
                   storage, retryCount, timers, scheduled, inFlight>>

\* A user signs in: the effect of useTasks calls loadTasks() for that user.
Login ==
    /\ userId = NoUser
    /\ \E u \in Users :
           /\ userId' = u
           /\ inFlight' = inFlight \cup
                  {[kind |-> "load", id |-> NoRet.id, userId |-> u]}
    /\ UNCHANGED <<isOffline, tasks, taskStore, taskServer, routines,
                   routineStore, routineServer, nextId, steps, lastOp,
                   removedTemp, offlineTasks, taskError, routineError,
                   syncRequested, storage, retryCount, timers, scheduled>>

\* loadTasks() is called for the signed-in user (refreshTasks, a realtime
\* event) and reaches its first await.
LoadStart ==
    /\ userId # NoUser /\ steps < MaxSteps
    /\ inFlight' = inFlight \cup
           {[kind |-> "load", id |-> NoRet.id, userId |-> userId]}
    /\ steps' = steps + 1
    /\ UNCHANGED <<isOffline, tasks, taskStore, taskServer, routines,
                   routineStore, routineServer, nextId, lastOp, removedTemp,
                   offlineTasks, taskError, routineError, syncRequested,
                   storage, retryCount, timers, scheduled, userId>>

\* A loadTasks() in flight completes, with the userId of its closure.
LoadEnd ==
    \E q \in inFlight, fetchOk \in BOOLEAN :
        /\ q.kind = "load"
        /\ \E r \in {loadTasks([TaskCtl EXCEPT !.userId = q.userId],
                                 isOffline, fetchOk)} :
               /\ tasks' = r.view /\ taskStore' = r.store
               /\ taskServer' = r.server
               /\ lastOp' = Op("loadTasks", NoRet.id, r)
               /\ taskError' =
                      loadTasksError([TaskCtl EXCEPT !.userId = q.userId],
                                     isOffline, fetchOk)
        /\ inFlight' = inFlight \ {q}
        /\ UNCHANGED <<isOffline, routines, routineStore, routineServer,
                       nextId, steps, removedTemp, offlineTasks, routineError,
                       syncRequested, storage, retryCount, timers, scheduled,
                       userId>>

UserNext ==
    \/ Logout \/ Login \/ LoadStart \/ LoadEnd
    \/ inFlight = {} /\ GoOffline
    \/ inFlight = {} /\ GoOnline
    \/ userId # NoUser /\ CreateTask

UserSpec == Init /\ [][UserNext]_vars

(***************************************************************************)
(* Properties.                                                             *)
(***************************************************************************)

TaskSyncOps == {"syncTasks", "syncAll"}

RoutineSyncOps == {"syncRoutines", "syncAll"}

MutationOps ==
    {"createTask", "updateTask", "deleteTask",
     "createRoutine", "updateRoutine", "deleteRoutine",
     "addRoutineSlot", "updateRoutineSlot", "deleteRoutineSlot",
     "activateRoutine", "deactivateRoutine"}

AllAccepted(calls) == \A i \in 1..Len(calls) : calls[i][3]

SomeRejected(calls) == \E i \in 1..Len(calls) : ~calls[i][3]

TimesCalled(calls, fn, id) ==
    Cardinality({i \in 1..Len(calls) : calls[i][1] = fn /\ calls[i][2] = id})

Accepted(calls, fn, id) ==
    \E i \in 1..Len(calls) :
        calls[i][1] = fn /\ calls[i][2] = id /\ calls[i][3]

AtMostOneFlag(rec) ==
    /\ ~(rec._isOffline /\ rec._isOfflineUpdated)
    /\ ~(rec._isOffline /\ rec._isOfflineDeleted)
    /\ ~(rec._isOfflineUpdated /\ rec._isOfflineDeleted)

\* C1: once the task controller's reconcile has completed online with the
\* Remote Service accepting every call, each task created offline has had
\* Remote create called exactly once for it, and the in-memory list holds it
\* under a server-issued id and no longer under its temp id.
C1_OfflineTaskReplayedOnSync ==
    (lastOp.op \in TaskSyncOps /\ ~lastOp.offline /\ AllAccepted(lastOp.calls))
    => \A t \in offlineTasks :
           /\ TimesCalled(lastOp.calls, "createTask", t.id) = 1
           /\ t.id \notin Ids(tasks)
           /\ \E u \in tasks : ~IsProvisional(u.id) /\ u.title = t.title

\* C2: a record created offline (task, routine, slot) has an id that starts
\* with "temp" and carries the pendingCreate flag, in the returned value and
\* in the copy written to the Local Store.
C2_OfflineCreateIsProvisionalAndTagged ==
    (lastOp.op \in {"createTask", "createRoutine", "addRoutineSlot"}
        /\ lastOp.offline /\ lastOp.outcome = "ok")
    => /\ IsProvisional(lastOp.ret.id)
       /\ HasFlag(lastOp.ret, "_isOffline")
       /\ lastOp.op = "createTask" =>
              \E t \in taskStore :
                  t.id = lastOp.ret.id /\ HasFlag(t, "_isOffline")
       /\ lastOp.op = "createRoutine" =>
              \E r \in routineStore :
                  r.id = lastOp.ret.id /\ HasFlag(r, "_isOffline")
       /\ lastOp.op = "addRoutineSlot" =>
              \E x \in AllSlots(routineStore) :
                  x.id = lastOp.ret.id /\ HasFlag(x, "_isOffline")

\* C3: after a reconcile pass in which the Remote create for a pendingCreate
\* routine succeeded, the Local Store holds no record under that routine's
\* provisional id.
C3_ProvisionalIdGoneAfterCreate ==
    lastOp.op \in RoutineSyncOps
    => \A i \in 1..Len(lastOp.calls) :
           (lastOp.calls[i][1] = "createRoutine" /\ lastOp.calls[i][3]
               /\ IsProvisional(lastOp.calls[i][2]))
           => lastOp.calls[i][2] \notin Ids(routineStore)

\* C4: a reconcile pass that directly follows a reconcile pass whose Remote
\* calls all succeeded issues no Remote Service call.
C4_SecondReconcileIssuesNoCall ==
    [][(/\ lastOp.op = "syncRoutines" /\ ~lastOp.offline
        /\ AllAccepted(lastOp.calls)
        /\ steps' = steps + 1 /\ lastOp'.op = "syncRoutines")
       => lastOp'.calls = <<>>]_vars

\* C5: a pendingCreate record deleted offline is in neither the Local Store
\* nor the in-memory view, and no later operation issues a Remote Service
\* call for its provisional id.
C5_DeletedProvisionalLeavesNoTrace ==
    \A id \in removedTemp :
        /\ id \notin Ids(taskStore) \cup Ids(routineStore)
                     \cup Ids(AllSlots(routineStore))
        /\ id \notin Ids(tasks) \cup Ids(routines) \cup Ids(AllSlots(routines))
        /\ \A i \in 1..Len(lastOp.calls) : lastOp.calls[i][2] # id

\* C6: no routine and no slot in the Local Store has two of the flags
\* _isOffline, _isOfflineUpdated, _isOfflineDeleted set together.
C6_AtMostOnePendingFlag ==
    \A r \in routineStore :
        AtMostOneFlag(r) /\ \A x \in r.slots : AtMostOneFlag(x)

\* C7: deleting offline a server-confirmed task or routine removes it from
\* the in-memory view and keeps it in the Local Store tagged pendingDelete.
C7_OfflineDeleteKeepsTaggedRecord ==
    (lastOp.op \in {"deleteTask", "deleteRoutine"} /\ lastOp.offline
        /\ lastOp.outcome = "ok" /\ ~IsProvisional(lastOp.arg))
    => /\ lastOp.op = "deleteTask" =>
              /\ lastOp.arg \notin Ids(tasks)
              /\ \E t \in taskStore :
                     t.id = lastOp.arg /\ HasFlag(t, "_isOfflineDeleted")
       /\ lastOp.op = "deleteRoutine" =>
              /\ lastOp.arg \notin Ids(routines)
              /\ \E r \in routineStore :
                     r.id = lastOp.arg /\ HasFlag(r, "_isOfflineDeleted")

\* C8: for a routine tagged pendingDelete, an online reconcile pass calls
\* Remote delete exactly once for its id, and when that call succeeds the
\* Local Store no longer holds the record after the pass.
C8_PendingDeletePurgedAfterPass ==
    [][(steps' = steps + 1 /\ lastOp'.op \in RoutineSyncOps /\ ~isOffline)
       => \A r \in routineStore :
              r._isOfflineDeleted
              => /\ TimesCalled(lastOp'.calls, "deleteRoutine", r.id) = 1
                 /\ Accepted(lastOp'.calls, "deleteRoutine", r.id)
                        => r.id \notin Ids(routineStore')]_vars

\* C9: when the Remote Service rejects an online create, update or delete of
\* a task, routine or slot, the call rejects and the Local Store and the
\* in-memory records are exactly as before the call.
C9_RejectedOnlineMutationChangesNothing ==
    [][(/\ steps' = steps + 1 /\ lastOp'.op \in MutationOps /\ ~isOffline
        /\ SomeRejected(lastOp'.calls))
       => /\ lastOp'.outcome = "rejected"
          /\ UNCHANGED <<tasks, taskStore, routines, routineStore>>]_vars

C9_Witness ==
    /\ lastOp.op \in MutationOps /\ ~lastOp.offline
    /\ SomeRejected(lastOp.calls) /\ lastOp.outcome = "rejected"

\* The Remote Service functions a reconcile pass replays.
ReplayFns ==
    {"createRoutine", "updateRoutine", "deleteRoutine",
     "addRoutineSlot", "updateRoutineSlot", "deleteRoutineSlot"}

\* The Remote call a reconcile pass issues for a tagged routine.
ReplayCall(r) ==
    IF r._isOfflineDeleted THEN "deleteRoutine"
    ELSE IF r._isOffline THEN "createRoutine" ELSE "updateRoutine"

\* C10: in one online reconcile pass where the Remote Service rejects some
\* calls and accepts others, every tagged routine is attempted; one whose
\* Remote call failed keeps its record and tag in the Local Store, and one
\* whose call succeeded is no longer stored with a pending flag.
C10_PartialFailureKeepsAndClears ==
    [][(/\ steps' = steps + 1 /\ lastOp'.op \in RoutineSyncOps /\ ~isOffline
        /\ \E i, j \in 1..Len(lastOp'.calls) :
               /\ lastOp'.calls[i][1] \in ReplayFns /\ ~lastOp'.calls[i][3]
               /\ lastOp'.calls[j][1] \in ReplayFns /\ lastOp'.calls[j][3])
       => \A r \in routineStore :
              IsTagged(r)
              => /\ TimesCalled(lastOp'.calls, ReplayCall(r), r.id) = 1
                 /\ IF Accepted(lastOp'.calls, ReplayCall(r), r.id)
                      THEN \A q \in routineStore' :
                               q.id = r.id => ~IsTagged(q)
                      ELSE r \in routineStore']_vars

\* C11: after an online load whose fetch succeeded, the Local Store holds
\* exactly the fetched record set (for tasks and for routines).
C11_OnlineLoadReplacesStore ==
    /\ (lastOp.op = "loadTasks" /\ ~lastOp.offline
           /\ AllAccepted(lastOp.calls))
       => taskStore = fetchTasks(taskServer, userId)
    /\ (lastOp.op = "loadRoutines" /\ ~lastOp.offline
           /\ AllAccepted(lastOp.calls))
       => routineStore = fetchRoutines(routineServer)

\* C12: a load that runs online and whose fetch fails resolves, leaves the
\* in-memory view equal to the Local Store contents, and leaves the
\* controller's error state cleared.
C12_FailedFetchFallsBack ==
    /\ (lastOp.op = "loadTasks" /\ ~lastOp.offline
           /\ SomeRejected(lastOp.calls))
       => /\ lastOp.outcome = "ok"
          /\ tasks = taskStore
          /\ taskError = NoError
    /\ (lastOp.op = "loadRoutines" /\ ~lastOp.offline
           /\ SomeRejected(lastOp.calls))
       => /\ lastOp.outcome = "ok"
          /\ routines = routineStore
          /\ routineError = NoError

\* C13: no routine and no slot in the in-memory view carries the
\* pendingDelete flag.
C13_ViewShowsNoPendingDelete ==
    \A r \in routines :
        /\ ~r._isOfflineDeleted
        /\ \A x \in r.slots : ~x._isOfflineDeleted

\* C14: an offline update of a server-confirmed task or routine leaves the
\* merged record in the Local Store tagged pendingUpdate; an offline update
\* of a provisional one leaves it tagged pendingCreate; and a reconcile pass
\* never issues a Remote update for a provisional id.
C14_OfflineUpdateTagsRecord ==
    /\ (lastOp.op = "updateTask" /\ lastOp.offline /\ lastOp.outcome = "ok")
       => \E t \in taskStore :
              /\ t.id = lastOp.arg
              /\ \A v \in tasks : v.id = t.id => v.title = t.title
              /\ IF IsProvisional(t.id) THEN HasFlag(t, "_isOffline")
                 ELSE HasFlag(t, "_isOfflineUpdated")
    /\ (lastOp.op = "updateRoutine" /\ lastOp.offline /\ lastOp.outcome = "ok"
           /\ lastOp.arg \in Ids(routineStore))
       => \E r \in routineStore :
              /\ r.id = lastOp.arg
              /\ \A v \in routines : v.id = r.id => v.name = r.name
              /\ IF IsProvisional(r.id) THEN HasFlag(r, "_isOffline")
                 ELSE HasFlag(r, "_isOfflineUpdated")
    /\ lastOp.op \in RoutineSyncOps
       => \A i \in 1..Len(lastOp.calls) :
              lastOp.calls[i][1] = "updateRoutine"
              => ~IsProvisional(lastOp.calls[i][2])

\* C15: in the Local Store every task, routine and slot tagged pendingCreate
\* has a provisional id: no record with a server-assigned id is tagged
\* pendingCreate.
C15_PendingCreateHasProvisionalId ==
    /\ \A t \in taskStore : HasFlag(t, "_isOffline") => IsProvisional(t.id)
    /\ \A r \in routineStore :
           /\ r._isOffline => IsProvisional(r.id)
           /\ \A x \in r.slots : x._isOffline => IsProvisional(x.id)

\* A reconcile pass has just confirmed an offline-created routine: the store
\* holds a tagged provisional record and server-keyed records.
C15_Witness ==
    /\ lastOp.op \in RoutineSyncOps
    /\ \E i \in 1..Len(lastOp.calls) :
           lastOp.calls[i][1] = "createRoutine" /\ lastOp.calls[i][3]
    /\ \E r \in routineStore : r._isOffline
    /\ \E r \in routineStore : ~IsProvisional(r.id)

\* C16: an online delete of a task or routine that the Remote Service
\* accepts leaves no record with that id in the in-memory view nor in the
\* Local Store.
C16_OnlineDeleteRemovesFromStore ==
    /\ (lastOp.op = "deleteTask" /\ ~lastOp.offline /\ lastOp.outcome = "ok")
       => /\ lastOp.arg \notin Ids(tasks)
          /\ lastOp.arg \notin Ids(getAllFromIndexedDB(taskStore))
    /\ (lastOp.op = "deleteRoutine" /\ ~lastOp.offline
           /\ lastOp.outcome = "ok")
       => /\ lastOp.arg \notin Ids(routines)
          /\ lastOp.arg \notin Ids(getAllFromIndexedDB(routineStore))

\* C17: between operations the ids in the in-memory view are exactly the ids
\* of the Local Store records not tagged pendingDelete.
C17_ViewMatchesStore ==
    /\ Ids(tasks) = Ids({t \in taskStore : ~HasFlag(t, "_isOfflineDeleted")})
    /\ Ids(routines) = Ids({r \in routineStore : ~r._isOfflineDeleted})

\* C18: a reconcile pass run online with every Remote call accepted calls
\* Remote addRoutineSlot exactly once for each slot created offline (of a
\* routine not pending deletion), and afterwards the Local Store holds the
\* slot under a server id, as a child of a server-keyed routine that the
\* server also holds with that slot, and no longer under its provisional id.
C18_OfflineSlotReplayedUnderParent ==
    [][(/\ steps' = steps + 1 /\ lastOp'.op \in RoutineSyncOps /\ ~isOffline
        /\ AllAccepted(lastOp'.calls))
       => \A r \in routineStore :
              ~r._isOfflineDeleted
              => \A x \in r.slots :
                     (x._isOffline /\ ~x._isOfflineDeleted)
                     => /\ TimesCalled(lastOp'.calls, "addRoutineSlot", x.id) = 1
                        /\ x.id \notin Ids(AllSlots(routineStore'))
                        /\ \E q \in routineStore' :
                               /\ ~IsProvisional(q.id)
                               /\ \E y \in q.slots :
                                      /\ ~IsProvisional(y.id)
                                      /\ y.val = x.val
                                      /\ \E z \in routineServer' :
                                             z.id = q.id
                                             /\ y.id \in Ids(z.slots)]_vars

\* A reconcile pass has just completed online with every call accepted.
PassSucceeded ==
    /\ ~syncRequested
    /\ lastOp.op = "syncAll" /\ ~lastOp.offline /\ AllAccepted(lastOp.calls)

\* C19: when the application eventually stays online and reconcile passes
\* keep completing with every Remote call accepted, eventually no routine
\* and no slot in the Local Store carries a pending flag any more.
C19_TagsEventuallyCleared ==
    ((<>[](~isOffline)) /\ ([]<>PassSucceeded))
    => <>[](TaggedIds(routineStore) = {})

\* C20: an operation performed while offline issues no Remote Service call
\* and leaves the server as it was.
C20_OfflineIssuesNoRemoteCall ==
    [][(steps' = steps + 1 /\ isOffline)
       => /\ lastOp'.calls = <<>>
          /\ UNCHANGED <<taskServer, routineServer>>]_vars

\* A reconcile was invoked offline with pending records in the Local Store.
C20_Witness ==
    /\ lastOp.offline /\ lastOp.op \in RoutineSyncOps
    /\ TaggedIds(routineStore) # {}

\* C21: in one syncAll every call of the task pass (Remote Service or Local
\* Store) is started before any call of the routine pass: no call of the
\* routine pass precedes a call of the task pass.
C21_PassesRunInOrder ==
    lastOp.op = "syncAll"
    => \A i, j \in 1..Len(lastOp.events) :
           (lastOp.events[i][1] = "routines" /\ lastOp.events[j][1] = "tasks")
           => j < i

\* C22: syncAll resolves whatever Remote Service and Local Store calls fail
\* during the two passes.
C22_SyncAllNeverRejects ==
    lastOp.op = "syncAll" => lastOp.outcome = "ok"

\* A syncAll ran online on broken storage, had a Remote call rejected and a
\* Local Store call of the routine pass rejected, and resolved.
C22_Witness ==
    /\ lastOp.op = "syncAll" /\ ~lastOp.offline /\ lastOp.outcome = "ok"
    /\ lastOp.storage # "ok"
    /\ SomeRejected(lastOp.calls)
    /\ routineError = Failed

\* C23: a syncAll that finds no record and no slot tagged in the Local Store
\* issues no Remote Service call, performs no Local Store write and leaves
\* the in-memory views (and the stores) unchanged.
C23_SyncAllWithoutTagsIsNoOp ==
    [][(/\ steps' = steps + 1 /\ lastOp'.op = "syncAll"
        /\ TaggedIds(routineStore) = {}
        /\ \A t \in taskStore :
               ~(HasFlag(t, "_isOffline") \/ HasFlag(t, "_isOfflineUpdated")
                 \/ HasFlag(t, "_isOfflineDeleted")))
       => /\ lastOp'.calls = <<>>
          /\ \A i \in 1..Len(lastOp'.events) :
                 lastOp'.events[i][2] # "saveToIndexedDB"
          /\ UNCHANGED <<tasks, routines, taskStore, routineStore>>]_vars

\* C24: a batch put is atomic: when an upsert of the batch fails the call
\* rejects and the collection is as before the call; when the call resolves
\* every record of the batch is stored.
C24_BatchPutIsAtomic ==
    [][lastOp'.op = "saveToIndexedDB"
       => /\ (lastOp'.fault.kind \in {"request", "throw"}
                  /\ lastOp'.fault.at <= Len(lastOp'.batch))
             => lastOp'.outcome = "rejected"
          /\ lastOp'.outcome = "rejected" => taskStore' = taskStore
          /\ lastOp'.outcome = "ok" => Range(lastOp'.batch) \subseteq taskStore'
      ]_vars

\* C25: a Local Store read never rejects: on any storage failure getAll
\* resolves to the empty list.
C25_ReadNeverRejects ==
    lastOp.op = "getAllFromIndexedDB"
    => /\ lastOp.outcome = "ok"
       /\ lastOp.fault.kind # "ok" => lastOp.value = {}

\* C26: a create, update, delete, slot or activation call in which a Local
\* Store write failed rejects.
C26_WriteFailureRejectsMutation ==
    (lastOp.op \in MutationOps /\ lastOp.writeFailed)
    => lastOp.outcome = "rejected"

\* C27: no structurally invalid slot is ever held by the Local Store, by the
\* in-memory view or by the server.
C27_NoInvalidSlotStored ==
    \A s \in AllSlots(routineStore) \cup AllSlots(routines)
                \cup AllSlots(routineServer) : s.val # InvalidSlot

\* C28: a retry timer is scheduled only by a task load that failed while
\* online, and at most 3 retry timers are ever scheduled.
C28_RetryOnlyForFailedOnlineLoad ==
    [][/\ scheduled' <= 3
       /\ scheduled' > scheduled
          => /\ lastOp'.op \in {"loadTasks", "syncTasks", "syncAll", "retryLoad"}
             /\ ~isOffline
             /\ SomeRejected(lastOp'.calls)]_vars

\* C29: the delay before the k-th automatic retry is min(1000 * 2^k, 10000)
\* ms: 1000 ms for the first, doubling with each attempt, never above
\* 10000 ms; and every pending timer was given that delay.
C29_RetryDelayDoublesUpToCap ==
    /\ \A k \in 0..MaxAttempt :
           /\ retryDelay(k) =
                  IF 1000 * 2^k < 10000 THEN 1000 * 2^k ELSE 10000
           /\ retryDelay(k) <= 10000
           /\ retryDelay(k + 1) =
                  IF 2 * retryDelay(k) < 10000 THEN 2 * retryDelay(k)
                  ELSE 10000
    /\ retryDelay(0) = 1000
    /\ \A i \in 1..Len(timers) :
           timers[i].delay =
               IF 1000 * 2^(timers[i].k) < 10000 THEN 1000 * 2^(timers[i].k)
               ELSE 10000

\* The third automatic retry is pending, after two failed retries.
C29_Witness ==
    /\ retryCount = 2
    /\ \E i \in 1..Len(timers) : timers[i].k = 2 /\ timers[i].delay = 4000

C32_OfflineViewFollowsStoreWrite ==
    [][(/\ steps' = steps + 1 /\ isOffline
        /\ lastOp'.op \in MutationOps
        /\ lastOp'.outcome = "rejected")
       => UNCHANGED <<tasks, routines>>]_vars

\* The routines of a list that carry a pending update or delete, on the
\* routine or on one of its slots.
PendingReplay(recs) ==
    {r \in recs :
        \/ r._isOfflineUpdated \/ r._isOfflineDeleted
        \/ \E sl \in r.slots : sl._isOfflineUpdated \/ sl._isOfflineDeleted}

\* C34: an online load of the routines leaves every Local Store record that
\* carries a pending update or delete as it is (tag and offline values), so
\* that a reconcile pass running after the load still replays it.
C34_LoadKeepsPendingRecords ==
    [][(/\ steps' = steps + 1 /\ ~isOffline
        /\ lastOp'.op = "loadRoutines")
       => PendingReplay(routineStore) \subseteq routineStore']_vars

\* C36: when a reconcile pass completes online with every Remote call
\* accepted, a stored routine marked by an offline activation is the one
\* active routine on the server and a routine marked by an offline
\* deactivation is inactive there, and the marker is cleared in the store.
C36_OfflineActivationReplayed ==
    [][(/\ steps' = steps + 1 /\ ~isOffline
        /\ lastOp'.op \in RoutineSyncOps
        /\ AllAccepted(lastOp'.calls))
       => \A r \in routineStore :
              (r.id \in Ids(routineServer) /\ ~r._isOfflineDeleted)
              => /\ r._needsActivationSync
                    => /\ \A x \in routineServer' : x.isActive <=> x.id = r.id
                       /\ \A x \in routineStore' :
                              x.id = r.id => ~x._needsActivationSync
                 /\ r._needsDeactivationSync
                    => /\ \A x \in routineServer' : x.id = r.id => ~x.isActive
                       /\ \A x \in routineStore' :
                              x.id = r.id => ~x._needsDeactivationSync]_vars

\* The positions of the calls issued for the local record id.
CallsFor(calls, id) == {i \in 1..Len(calls) : calls[i][2] = id}

\* The one call a tagged record may trigger: delete before create before
\* update.
ReplayOf(rec, del, new, upd) ==
    IF rec._isOfflineDeleted THEN del
    ELSE IF rec._isOffline THEN new ELSE upd

\* C37: in one reconcile pass a tagged routine and a tagged slot trigger at
\* most one Remote call each, the delete when the record is marked deleted,
\* else the create when it was created offline, else the update.
C37_OneCallPerRecordByPrecedence ==
    [][(steps' = steps + 1 /\ lastOp'.op \in RoutineSyncOps)
       => /\ \A r \in routineStore :
                 /\ Cardinality(CallsFor(lastOp'.calls, r.id)) <= 1
                 /\ \A i \in CallsFor(lastOp'.calls, r.id) :
                        lastOp'.calls[i][1] =
                            ReplayOf(r, "deleteRoutine", "createRoutine",
                                     "updateRoutine")
          /\ \A sl \in AllSlots(routineStore) :
                 /\ Cardinality(CallsFor(lastOp'.calls, sl.id)) <= 1
                 /\ \A i \in CallsFor(lastOp'.calls, sl.id) :
                        lastOp'.calls[i][1] =
                            ReplayOf(sl, "deleteRoutineSlot", "addRoutineSlot",
                                     "updateRoutineSlot")]_vars

\* A pass has replayed a routine that carries both a pending update and a
\* pending delete: one deleteRoutine call, no updateRoutine call.
C37_Witness ==
    /\ lastOp.op = "syncRoutines" /\ ~lastOp.offline
    /\ \E r \in routineStore :
           /\ r._isOfflineUpdated /\ r._isOfflineDeleted
           /\ TimesCalled(lastOp.calls, "deleteRoutine", r.id) = 1
           /\ TimesCalled(lastOp.calls, "updateRoutine", r.id) = 0

\* Two records agree on every field outside fields.
SameExcept(a, b, fields) ==
    DOMAIN a = DOMAIN b /\ \A f \in DOMAIN a \ fields : a[f] = b[f]

\* The records other than id are the same in both lists.
OthersKept(old, new, id) == {r \in old : r.id # id} = {r \in new : r.id # id}

\* The record id, where both lists hold it, differs at most in fields.
TargetMerged(old, new, id, fields) ==
    \A a \in old, b \in new :
        (a.id = id /\ b.id = id) => SameExcept(a, b, fields)

PendingFlags == {"_isOffline", "_isOfflineUpdated", "_isOfflineDeleted"}

\* The routine that holds slot slotId.
OwnerOf(recs, slotId) == {r.id : r \in {x \in recs : slotId \in Ids(x.slots)}}

\* The slots other than slotId are kept and slotId differs at most in its
\* value and pending flags, in every routine.
SlotsMerged(old, new, slotId) ==
    \A a \in old, b \in new :
        a.id = b.id
        => /\ OthersKept(a.slots, b.slots, slotId)
           /\ TargetMerged(a.slots, b.slots, slotId, {"val"} \cup PendingFlags)

C39_SuccessfulLoadClearsError ==
    [][(/\ steps' = steps + 1 /\ ~isOffline
        /\ lastOp'.op \in {"loadTasks", "loadRoutines"}
        /\ AllAccepted(lastOp'.calls))
       => /\ lastOp'.op = "loadTasks" => taskError' = NoError
          /\ lastOp'.op = "loadRoutines" => routineError' = NoError]_vars

\* C31: once no activateRoutine call is in flight, the routine of the call
\* that completed last is active on the server and every other routine is
\* inactive there, also when two calls for different routines overlapped.
C31_OneActiveRoutineAfterActivation ==
    (inFlight = {} /\ lastOp.op = "activateRoutine" /\ lastOp.outcome = "ok")
    => \A x \in routineServer : x.isActive <=> x.id = lastOp.arg

\* C33: at most one Remote Service call of a reconcile pass is in flight,
\* and it is the call started last: every earlier call has settled.
C33_PassReplaysOneAtATime ==
    \A q \in inFlight :
        q.kind = "sync"
        => Cardinality(q.open) <= 1 /\ q.open \subseteq {q.issued}

\* The second call of a pass is in flight after the first has settled.
C33_Witness ==
    \E q \in inFlight :
        q.kind = "sync" /\ Len(q.plan) >= 2 /\ q.issued = 2 /\ q.open = {2}

\* C35: when a reconcile pass finishes, every record that an online
\* createRoutine or updateRoutine stored or showed while the pass was in
\* flight is still in the Local Store and in the view.
C35_PassKeepsOnlineMutation ==
    [][(\E q \in inFlight : q.kind = "sync" /\ q \notin inFlight')
       => \A q \in inFlight :
              /\ (routineStore \ q.snapshot) \subseteq routineStore'
              /\ (routines \ q.shown) \subseteq routines']_vars

\* C40: when a task load completes while a user is signed in, every task of
\* the view belongs to that user.
C40_ViewHoldsOnlyOwnTasks ==
    [][(/\ lastOp'.op = "loadTasks"
        /\ inFlight' # inFlight /\ inFlight' \subseteq inFlight
        /\ userId' \in Users)
       => \A t \in tasks' : t.userId = userId']_vars

====
